---- MODULE Spec2Model ----
(***************************************************************************)
(* Model of the tradingbibot execution core and control plane.             *)
(*                                                                         *)
(* Paper execution engine: src/src/execution.py (ExecutionEngine) with the *)
(* sizer of src/src/risk_management.py (PositionSizer).                    *)
(* Control planes: src/api/server.py and src/legacy/api/server.py.         *)
(* Data pipeline: the ingestor (src/src/ingestion.py), the fan-out         *)
(* dispatcher, the aggregator (src/src/aggregator.py) with its runner and  *)
(* the PnL broadcaster (src/main.py).                                      *)
(* Strategy: src/src/strategy.py (HybridStrategy) with strategy_runner and *)
(* warmup_strategy of src/main.py.                                         *)
(* Collaborators: RiskGuard (src/legacy/core/risk.py), size_from_risk      *)
(* (src/core/sizing.py), LogManager (src/core/logger.py, src/src/utils.py).*)
(* Each component has a specification of its own over the one tuple of     *)
(* variables.                                                              *)
(*                                                                         *)
(* Arithmetic.  The program computes in binary floating point; the model   *)
(* computes the same expressions exactly, in fixed point:                  *)
(*   money  : integer multiples of 1/Dollar of a dollar (Dollar = 10^5),   *)
(*   qty    : integer thousandths (the step size 0.001 of                  *)
(*            normalize_quantity),                                         *)
(*   price  : whole dollars, multiples of 25 so that the 4 bp fee of a     *)
(*            stepped quantity is a whole number of money units.           *)
(* Quantities before step rounding are exact fractions <<num, den>>.       *)
(* Position.timestamp (the event-loop clock), stop_loss and take_profit    *)
(* are stored by the engine and never read by it; the model leaves them    *)
(* out of the position record.                                             *)
(***************************************************************************)
EXTENDS Integers, Naturals, Sequences, FiniteSets, TLC

(***************************************************************************)
(* Bounds of the model.                                                    *)
(***************************************************************************)
\* number of signals delivered to on_signal in one behaviour
MaxSignals == 3
\* signal ids are 1..NumIds
NumIds == 2
\* Capacity of the processed-signal window.  src/src/execution.py:48 sets
\* 1000; the model scales the window down so that FIFO eviction happens
\* within MaxSignals deliveries.
max_processed_signals == 1
\* orders the legacy adapter places in one behaviour
MaxOrders == 3
\* ticks delivered to the aggregator in one behaviour
MaxTicks == 4
\* connections lost and connection attempts failed in one behaviour
MaxFailures == 7
\* seconds a connection is followed without a message
MaxSilence == 16
\* Capacity of the tick queues.  src/main.py:34 sets 5000; the model scales
\* it down so that the queues fill within MaxTicks ticks.
TICK_QUEUE_SIZE == 2
\* src/main.py:38 sets 10: every TICKER_SAMPLE_RATE-th trade is broadcast;
\* scaled down so that broadcasts happen within MaxTicks ticks.
TICKER_SAMPLE_RATE == 2

\* signals delivered to on_signal by its two callers in one behaviour
MaxTaskSignals == 2
\* candles delivered to the strategy per symbol in one behaviour
MaxCandles == 4
\* Length of the strategy's candle window.  src/src/strategy.py:27 sets
\* 300; the model scales it down so that the window fills within
\* MaxCandles candles.
lookback == 4
\* History on_candle needs before it computes indicators.
\* src/src/strategy.py:97 sets 201 (one row before the first SMA200 row);
\* scaled down with lookback.
min_candles == 3
\* Candles warmup_strategy asks the store for.  src/main.py:412 sets 300,
\* the length of the window; scaled down with lookback.
warmup_limit == 4

\* trade results recorded by the RiskGuard in one behaviour
MaxRecords == 4
\* seconds the clock of the RiskGuard advances in one behaviour
MaxTime == 3
\* calls of RiskGuard.panic in one behaviour
MaxPanics == 2

\* WebSocket clients that connect in one behaviour
NumClients == 2

\* OnlineLearner.lookback.  src/src/learning.py:24 sets 50; the model scales
\* the window down so that training begins within MaxLearnerCandles candles.
learner_lookback == 1
\* Samples before the learner answers.  src/src/config.py:24 sets 1000,
\* scaled down likewise.
ML_MIN_SAMPLES == 2
\* candles of one symbol given to the learner in one behaviour
MaxLearnerCandles == 5

\* the steps the tasks take between their awaits before the shutdown
MaxMoves == 3

\* concurrent calls of OrderRouter.route in one behaviour
NumRoutes == 2

\* manual orders posted to the control plane in one behaviour
MaxManualOrders == 2

(***************************************************************************)
(* Program constants.                                                      *)
(***************************************************************************)
\* execution.py:44  fee_rate = 0.0004, in units of 1/10000
fee_rate_e4 == 4
\* execution.py:110  cooldown in ms
cooldown_ms == 5000
\* execution.py:85  min notional in dollars
min_notional == 5
\* execution.py:160  risk_per_trade_pct = 0.01, in percent
risk_per_trade_pct == 1
\* execution.py:159  fallback stop = price * 0.95, in percent of price
fallback_sl_pct == 95

\* aggregator.py:14  interval_ms
interval_ms == 1000

\* money units per dollar
Dollar == 100 * 1000
\* money units of one thousandth of a unit of quantity at a price of 1 dollar
Milli == Dollar \div 1000

\* execution.py:40  the constructor arguments initial_balance (default
\* 10000.0) and max_position_pct (default 0.2, here in percent) of the
\* engines of the model
EngineConfigs ==
  { [initial_balance |-> 50 * Dollar, max_position_pct |-> 20],
    [initial_balance |-> 50 * Dollar, max_position_pct |-> 100],
    [initial_balance |-> 20 * Dollar, max_position_pct |-> 20] }

Symbols == {"BTCUSDT", "ETHUSDT"}
Sides == {"BUY", "SELL"}
Prices == {25, 250}
Timestamps == {5000, 9999, 10000}
Ids == 1..NumIds
\* stop_loss of a signal: 0 (not provided) at the low price, one dollar
\* below the price at the high price
StopLosses(price) == IF price = 250 THEN {price - 1} ELSE {0}

\* src/src/models.py:16-26 Signal (reason and take_profit do not reach the
\* engine's state)
Signals ==
  { [id |-> i, symbol |-> y, side |-> d, price |-> p, timestamp |-> t,
     stop_loss |-> sl] :
      i \in Ids, y \in Symbols, d \in Sides,
      p \in Prices, t \in Timestamps, sl \in {0} \cup {q - 1 : q \in Prices} }

ValidSignal(s) == s.stop_loss \in StopLosses(s.price)

\* execution.py:18-26 Position; the absent dict entry is NoPos
NoPos == [side |-> "NONE", entry_price |-> 0, qty |-> 0]

NoSignal == [id |-> 0, symbol |-> "NONE", side |-> "NONE", price |-> 0,
             timestamp |-> 0, stop_loss |-> 0]

VARIABLES
  \* ExecutionEngine.portfolio
  balance, positions, realized_pnl,
  \* ExecutionEngine safety-check state
  processed_signals, last_closure_time,
  \* ExecutionEngine.max_position_pct (percent)
  max_position_pct,
  \* the signal most recently delivered to on_signal and what became of it
  sig, outcome, closedNow,
  \* balance seen by, and total_debit computed by, the last _open_position
  \* that reached the funds test
  openAvail, openDebit,
  \* history: positions opened and not closed, per symbol
  openCount,
  \* history: every id that passed check_idempotency
  seen,
  \* number of signals delivered
  nSignals,
  \* src/api/server.py: POST /panic has been handled
  panicActivated,
  \* src/legacy/api/server.py
  lockout, panicked, registry, lastReq, httpStatus, placed, healthLockout,
  \* src/main.py pnl_broadcaster: the payload it posted last
  pnlPayload,
  \* TimeBarAggregator.active_candles and the content of its output_queue
  active_candles, candle_queue,
  \* aggregator_runner: "running" or "stopped"
  agg_state,
  \* history: the ticks the aggregator was given, in order
  aggTicks,
  \* BinanceIngestor.run: "connecting", "reading" or "stopped"; its local
  \* backoff (s)
  ing_state, backoff,
  \* the kind of the message the last step of the ingestor handled ("none"
  \* when the step was not a message)
  ing_msg,
  \* live _watchdog tasks; seconds since last_message_time
  watchdogs, silence,
  \* history: seconds slept after the last connection loss or failed
  \* attempt; number of losses and failed attempts so far
  ingWait, ingFails,
  \* the ingestor's output queue (dispatch_queue of main),
  \* BinanceIngestor._queue_full_logged, the record its put waits with
  \* (NoTick: it does not wait), the number of records parsed
  dispatch_queue, queue_full_logged, ing_put, nParsed,
  \* fanout_dispatcher: where it stands ("get", "put_db", "put_agg" or
  \* "stopped"), its local msg and counter, the ticker broadcasts posted
  fan_state, fan_msg, counter, tickerPosts,
  \* the persistence queue and the aggregator queue
  db_queue, agg_queue,
  \* history: the ticks taken by the dispatcher, put on db_queue and put
  \* on agg_queue, in order
  taken, dbPut, aggPut,
  \* HybridStrategy.state[symbol].candles, as candle numbers; the candles
  \* delivered to strategy_runner per symbol
  strat_candles, fed,
  \* the last round of strategy_runner: its symbol, the learner's (proba,
  \* ready), the indicator row of the window, what on_candle returned,
  \* whether it raised, what the runner did ("put", "veto", "nothing",
  \* "error")
  strat_y, strat_ml, strat_rows, strat_signal, strat_raised, strat_put,
  \* the execution queue
  execution_queue,
  \* the candles of a strategy warmed up by replay, and the number of
  \* candles the store held at the replay
  warm_candles, warm_n,
  \* the decision block of on_candle and the veto of strategy_runner applied
  \* to one indicator row: the row, whether the strategy has a learner, the
  \* learner's (proba, ready), the technical signal, what on_candle
  \* returns, what the runner does
  dec_row, dec_learner, dec_ml, dec_signal, dec_out, dec_put,
  \* the portfolio snapshot in durable storage (NoSnapshot: none written)
  persisted,
  \* the two tasks of src/main.py that call the engine: where each stands
  \* in on_signal, the signal it handles, the position it read before its
  \* await
  task_pc, task_sig, task_pos,
  \* RiskGuard (src/legacy/core/risk.py): whether it is constructed, its
  \* config, its RiskStatus and equity, the clock, the panic tasks the
  \* event loop holds, and the history of calls kept for the properties
  rg_built, rg_cfg, status, equity, rg_now, rg_tasks, rg_records, rg_run,
  rg_tripped, rg_panics, rg_panic_at,
  \* size_from_risk (src/core/sizing.py): its arguments and its result
  sz_in, sz_qty,
  \* LogManager: the list of active connections, each client's state, and
  \* for each broadcast its position, the rest of its copy of the list,
  \* the active set at its beginning and at its end, the clients whose
  \* send failed or was skipped, and the deliveries per client and message
  active_connections, client_state, bc_pc, bc_todo, bc_start, bc_end,
  bc_failed, bc_skipped, received,
  \* OnlineLearner: per symbol the buffer of candles, the samples the
  \* scaler and the model have been fitted on, train_counts and the candles
  \* given so far; whether the last answer was ready
  buffers, lrn_samples, train_counts, lrn_n, lrn_ready,
  \* the tasks of main.py: the await each is at, the cancelled tasks the
  \* event loop has yet to wake, whether main is shutting down, the await
  \* each task was cancelled at, the steps taken
  task_at, ready, shutdown, cancelled_at, nMoves,
  \* the cash of the engine: initial_balance, and the sums of the fees
  \* charged at the opens and at the closes and of the gross PnL of the
  \* closed positions
  initial_balance, entry_fees, exit_fees, gross_pnl,
  \* OrderRouter: the set _executed, and for each call of route where it
  \* stands, its fingerprint, the invocations of the executor and the
  \* answer; the completions of the executor per fingerprint
  executed, route_pc, route_fp, attempts, route_result, completed,
  \* the last manual order posted to the control plane, the current price
  \* and the time it was handled at, and the number of orders so far
  manual

engineVars == <<balance, positions, realized_pnl, processed_signals,
                last_closure_time, max_position_pct, sig, outcome, closedNow,
                openAvail, openDebit, openCount, seen, nSignals>>
legacyVars == <<lockout, panicked, registry, lastReq, httpStatus, placed,
                healthLockout>>
pnlVars == <<pnlPayload>>
\* the state of the data pipeline and of the broadcaster
aggVars == <<active_candles, candle_queue, agg_state, aggTicks>>
ingVars == <<ing_state, backoff, watchdogs, silence, ingWait, ingFails,
             ing_msg>>
enqVars == <<dispatch_queue, queue_full_logged, ing_put, nParsed>>
fanVars == <<fan_state, fan_msg, counter, tickerPosts, db_queue, agg_queue,
             taken, dbPut, aggPut>>
tickVars == <<enqVars, fanVars>>
pipelineVars == <<pnlVars, aggVars, ingVars, tickVars>>
stratVars == <<strat_candles, fed, strat_y, strat_ml, strat_rows, strat_signal,
              strat_raised, strat_put, execution_queue, warm_candles,
              warm_n>>
\* the state of the strategy stage, of the concurrent handlers and of the
\* collaborators of the core
decideVars == <<dec_row, dec_learner, dec_ml, dec_signal, dec_out, dec_put>>
persistVars == <<persisted>>
concVars == <<task_pc, task_sig, task_pos>>
riskVars == <<rg_built, rg_cfg, status, equity, rg_now, rg_tasks, rg_records,
              rg_run, rg_tripped, rg_panics, rg_panic_at>>
sizeVars == <<sz_in, sz_qty>>
wsVars == <<active_connections, client_state, bc_pc, bc_todo, bc_start,
            bc_end, bc_failed, bc_skipped, received>>
learnVars == <<buffers, lrn_samples, train_counts, lrn_n, lrn_ready>>
shutVars == <<task_at, ready, shutdown, cancelled_at, nMoves>>
cashVars == <<initial_balance, entry_fees, exit_fees, gross_pnl>>
routeVars == <<executed, route_pc, route_fp, attempts, route_result,
               completed>>
manVars == <<manual>>
serviceVars == <<stratVars, decideVars, persistVars, concVars, riskVars,
                 sizeVars, wsVars, learnVars, shutVars, cashVars, routeVars,
                 manVars>>
vars == <<balance, positions, realized_pnl, processed_signals,
          last_closure_time, max_position_pct, sig, outcome, closedNow,
          openAvail, openDebit, openCount, seen, nSignals, panicActivated,
          lockout, panicked, registry, lastReq, httpStatus, placed,
          healthLockout, pipelineVars, serviceVars>>

\* what an action of a service leaves alone outside the services
OuterFrame ==
  UNCHANGED panicActivated /\ UNCHANGED legacyVars /\ UNCHANGED pipelineVars

CoreFrame == UNCHANGED engineVars /\ OuterFrame

\* what an action of one service leaves alone in the others
StratFrame == CoreFrame
  /\ UNCHANGED <<decideVars, persistVars, concVars, riskVars, sizeVars,
                 wsVars, learnVars, shutVars, cashVars, routeVars, manVars>>
DecideFrame == CoreFrame
  /\ UNCHANGED <<stratVars, persistVars, concVars, riskVars, sizeVars,
                 wsVars, learnVars, shutVars, cashVars, routeVars, manVars>>
PersistFrame == CoreFrame
  /\ UNCHANGED <<stratVars, decideVars, concVars, riskVars, sizeVars, wsVars,
                 learnVars, shutVars, cashVars, routeVars, manVars>>
ConcFrame == OuterFrame
  /\ UNCHANGED <<stratVars, decideVars, persistVars, riskVars, sizeVars,
                 wsVars, learnVars, shutVars, cashVars, routeVars, manVars>>
RiskFrame == CoreFrame
  /\ UNCHANGED <<stratVars, decideVars, persistVars, concVars, sizeVars,
                 wsVars, learnVars, shutVars, cashVars, routeVars, manVars>>
SizeFrame == CoreFrame
  /\ UNCHANGED <<stratVars, decideVars, persistVars, concVars, riskVars,
                 wsVars, learnVars, shutVars, cashVars, routeVars, manVars>>
WsFrame == CoreFrame
  /\ UNCHANGED <<stratVars, decideVars, persistVars, concVars, riskVars,
                 sizeVars, learnVars, shutVars, cashVars, routeVars, manVars>>
LearnFrame == CoreFrame
  /\ UNCHANGED <<stratVars, decideVars, persistVars, concVars, riskVars,
                 sizeVars, wsVars, shutVars, cashVars, routeVars, manVars>>
ShutFrame == CoreFrame
  /\ UNCHANGED <<stratVars, decideVars, persistVars, concVars, riskVars,
                 sizeVars, wsVars, learnVars, cashVars, routeVars, manVars>>
CashFrame == OuterFrame
  /\ UNCHANGED <<stratVars, decideVars, persistVars, concVars, riskVars,
                 sizeVars, wsVars, learnVars, shutVars, routeVars, manVars>>
RouteFrame == CoreFrame
  /\ UNCHANGED <<stratVars, decideVars, persistVars, concVars, riskVars,
                 sizeVars, wsVars, learnVars, shutVars, cashVars, manVars>>
ManFrame == OuterFrame
  /\ UNCHANGED <<stratVars, decideVars, persistVars, concVars, riskVars,
                 sizeVars, wsVars, learnVars, shutVars, cashVars, routeVars>>







Abs(x) == IF x < 0 THEN -x ELSE x

Range(f) == { f[i] : i \in DOMAIN f }

(***************************************************************************)
(* PositionSizer.calculate_position_size, risk_management.py:14-39.        *)
(* entry and stop are in cents, the result is the exact quantity in        *)
(* thousandths as a fraction <<num, den>>.                                 *)
(*   qty_risk = balance * 0.01 / |entry - stop|                            *)
(*   qty_cap  = balance * max_pct / entry                                  *)
(* Both have the numerator account_balance once written in thousandths,    *)
(* so the minimum is the one with the larger denominator.  The cap's       *)
(* denominator is exact for percentages that divide 10000.                 *)
(***************************************************************************)
calculate_position_size(account_balance, entry_c, stop_c, max_pct) ==
  IF entry_c <= 0 \/ stop_c <= 0 \/ account_balance <= 0
    THEN <<0, 1>>
    ELSE LET sl_distance == Abs(entry_c - stop_c) IN
         IF sl_distance = 0
           THEN <<0, 1>>
           ELSE LET den_risk == (Milli * sl_distance) \div risk_per_trade_pct
                    den_cap  == (Milli * entry_c) \div max_pct
                IN  IF den_risk >= den_cap
                      THEN <<account_balance, den_risk>>
                      ELSE <<account_balance, den_cap>>

\* a normalisation that cuts the quantity to the step below
normalize_quantity_floor(q) == q[1] \div q[2]

\* execution.py:90-93 normalize_quantity: round(qty, 3), Python rounds
\* half to even
normalize_quantity(q) ==
  LET n == q[1] \div q[2]
      r == q[1] % q[2]
  IN  IF 2 * r < q[2] THEN n
      ELSE IF 2 * r > q[2] THEN n + 1
      ELSE IF n % 2 = 0 THEN n ELSE n + 1

\* execution.py:82-88 check_min_notional (qty in thousandths)
check_min_notional(price, qty) == ~ (price * qty < min_notional * 1000)

\* check_idempotency that never recognises a duplicate
check_idempotency_off(signal_id) == TRUE

\* execution.py:95-104 check_idempotency: the test ...
check_idempotency(signal_id) == signal_id \notin Range(processed_signals)

\* ... and the update of the window, oldest entry evicted
Remember(signal_id) ==
  LET added == Append(processed_signals, signal_id) IN
  IF Len(added) > max_processed_signals THEN Tail(added) ELSE added

\* check_cooldown that also rejects at exactly the cooldown
check_cooldown_inclusive(lct, symbol, current_timestamp) ==
  ~ (current_timestamp - lct[symbol] <= cooldown_ms)

\* check_cooldown with a cooldown of 3000 ms
check_cooldown_short(lct, symbol, current_timestamp) ==
  ~ (current_timestamp - lct[symbol] < 3000)

\* execution.py:106-113 check_cooldown
check_cooldown(lct, symbol, current_timestamp) ==
  ~ (current_timestamp - lct[symbol] < cooldown_ms)

\* a close of a SHORT that returns the PnL without the initial cost
close_position_pnl_only(bal, rpnl, pos, price) ==
  LET exit_value == pos.qty * price * Milli
      fee == (exit_value * fee_rate_e4) \div 10000
      pnl == IF pos.side = "LONG"
               THEN (price - pos.entry_price) * pos.qty * Milli
               ELSE (pos.entry_price - price) * pos.qty * Milli
      gross_return == IF pos.side = "LONG" THEN exit_value ELSE pnl
  IN  [balance |-> bal + gross_return - fee, realized_pnl |-> rpnl + pnl]

(***************************************************************************)
(* execution.py:207-237 _close_position: the new balance and realized_pnl  *)
(***************************************************************************)
close_position(bal, rpnl, pos, price) ==
  LET exit_value == pos.qty * price * Milli
      fee == (exit_value * fee_rate_e4) \div 10000
      initial_cost == pos.qty * pos.entry_price * Milli
      pnl == IF pos.side = "LONG"
               THEN (price - pos.entry_price) * pos.qty * Milli
               ELSE (initial_cost * (pos.entry_price - price))
                      \div pos.entry_price
      gross_return == IF pos.side = "LONG" THEN exit_value
                      ELSE initial_cost + pnl
      net_return == gross_return - fee
  IN  [balance |-> bal + net_return, realized_pnl |-> rpnl + pnl]

\* a funds test that lets every open through
insufficient_funds_off(total_debit, bal) == FALSE

\* execution.py:180 the funds test of _open_position
insufficient_funds(total_debit, bal) == total_debit > bal

(***************************************************************************)
(* execution.py:150-205 _open_position: outcome, new balance and position  *)
(***************************************************************************)
open_position(bal, side, price, sl, max_pct) ==
  LET stop_c == IF sl > 0 THEN 100 * sl ELSE fallback_sl_pct * price
      raw == calculate_position_size(bal, 100 * price, stop_c, max_pct)
      qty == normalize_quantity(raw)
      cost == qty * price * Milli
      fee == (cost * fee_rate_e4) \div 10000
      total_debit == cost + fee
      rejected(why) == [outcome |-> why, balance |-> bal, pos |-> NoPos,
                        avail |-> 0, debit |-> 0]
  IN  IF raw[1] <= 0 THEN rejected("qty_zero")
      ELSE IF ~ check_min_notional(price, qty) THEN rejected("min_notional")
      ELSE IF insufficient_funds(total_debit, bal)
        THEN [outcome |-> "insufficient", balance |-> bal, pos |-> NoPos,
              avail |-> bal, debit |-> total_debit]
        ELSE [outcome |-> "opened", balance |-> bal - total_debit,
              pos |-> [side |-> side, entry_price |-> price, qty |-> qty],
              avail |-> bal, debit |-> total_debit]

\* a position test that never sees the position
in_position_off(pos) == FALSE

\* execution.py:132 and :145, "if not current_pos"
in_position(pos) == pos # NoPos

(***************************************************************************)
(* execution.py:115-148 _execute_paper: the whole handler, as the record   *)
(* of what it leaves behind                                                *)
(***************************************************************************)
execute_paper(s) ==
  LET symbol == s.symbol
      current_pos == positions[symbol]
      opposite == IF s.side = "BUY" THEN "SHORT" ELSE "LONG"
      newside == IF s.side = "BUY" THEN "LONG" ELSE "SHORT"
      closes == current_pos # NoPos /\ current_pos.side = opposite
      c == IF closes
             THEN close_position(balance, realized_pnl, current_pos, s.price)
             ELSE [balance |-> balance, realized_pnl |-> realized_pnl]
      lct == IF closes
               THEN [last_closure_time EXCEPT ![symbol] = s.timestamp]
               ELSE last_closure_time
      pos1 == IF closes THEN NoPos ELSE current_pos
      base == [balance |-> c.balance, realized_pnl |-> c.realized_pnl,
               last_closure_time |-> lct, closed |-> closes,
               pos |-> pos1, avail |-> 0, debit |-> 0]
  IN  IF in_position(pos1)
        THEN base @@ [outcome |-> "same_side"]
      ELSE IF ~ check_cooldown(lct, symbol, s.timestamp)
        THEN base @@ [outcome |-> "cooldown"]
      ELSE LET o == open_position(c.balance, newside, s.price, s.stop_loss,
                                  max_position_pct)
           IN  [balance |-> o.balance, realized_pnl |-> c.realized_pnl,
                last_closure_time |-> lct, closed |-> closes,
                pos |-> o.pos, avail |-> o.avail, debit |-> o.debit,
                outcome |-> o.outcome]

(***************************************************************************)
(* execution.py:56-78 on_signal (execute, :52-54, is an alias).  PAPER and *)
(* LIVE mode both run _execute_paper.                                      *)
(***************************************************************************)
on_signal(s) ==
  /\ nSignals < MaxSignals
  /\ nSignals' = nSignals + 1
  /\ sig' = s
  /\ UNCHANGED max_position_pct
  /\ IF ~ check_idempotency(s.id)
       THEN /\ outcome' = "duplicate"
            /\ closedNow' = FALSE
            /\ openAvail' = 0
            /\ openDebit' = 0
            /\ UNCHANGED <<balance, positions, realized_pnl,
                           processed_signals, last_closure_time, openCount,
                           seen>>
       ELSE LET r == execute_paper(s) IN
            /\ processed_signals' = Remember(s.id)
            /\ seen' = seen \cup {s.id}
            /\ balance' = r.balance
            /\ realized_pnl' = r.realized_pnl
            /\ last_closure_time' = r.last_closure_time
            /\ positions' = [positions EXCEPT ![s.symbol] = r.pos]
            /\ outcome' = r.outcome
            /\ closedNow' = r.closed
            /\ openAvail' = r.avail
            /\ openDebit' = r.debit
            /\ openCount' = [openCount EXCEPT ![s.symbol] =
                               @ - (IF r.closed THEN 1 ELSE 0)
                                 + (IF r.outcome = "opened" THEN 1 ELSE 0)]

OnSignal ==
  \* the bound of on_signal on the deliveries, before a signal is drawn
  /\ nSignals < MaxSignals
  /\ \E s \in Signals : ValidSignal(s) /\ on_signal(s)
  /\ UNCHANGED panicActivated
  /\ UNCHANGED legacyVars
  /\ UNCHANGED pipelineVars
  /\ UNCHANGED serviceVars

(***************************************************************************)
(* The engine as main() constructs it, under signals that carry their      *)
(* brackets.  At these prices the fee of a stepped quantity is not a whole *)
(* number of money units: the model's fee is the exact fee cut to the      *)
(* money unit (a hundred-thousandth of a dollar), so balances are exact to *)
(* within one unit per fee.                                                *)
(***************************************************************************)
\* execution.py:40 the defaults of the constructor, which main.py:475-479
\* also passes: initial_balance 10000.0, max_position_pct 0.20
DefaultConfig ==
  [initial_balance |-> 10000 * Dollar, max_position_pct |-> 20]

\* strategy.py:125-152 signals with their stop: entry 120 with the stop at
\* 116 (BUY) or 124 (SELL), entry 126 with the stop at 122 or 130
BracketSignals ==
  { [id |-> i, symbol |-> y, side |-> d, price |-> p, timestamp |-> 5000,
     stop_loss |-> IF d = "BUY" THEN p - 4 ELSE p + 4] :
      i \in Ids, y \in Symbols, d \in Sides, p \in {120, 126} }

ExampleSignal ==
  /\ nSignals < MaxSignals
  /\ \E s \in BracketSignals : on_signal(s)
  /\ UNCHANGED panicActivated
  /\ UNCHANGED legacyVars
  /\ UNCHANGED pipelineVars
  /\ UNCHANGED serviceVars

(***************************************************************************)
(* Control plane of src/api/server.py and the manual-order path.           *)
(***************************************************************************)
\* src/api/server.py:53-59 panic_mode: broadcasts a log line and returns
\* {"status": "panic_activated"}; it sets no flag the engine reads
panic_mode ==
  /\ panicActivated' = TRUE
  /\ UNCHANGED engineVars
  /\ UNCHANGED legacyVars
  /\ UNCHANGED pipelineVars
  /\ UNCHANGED serviceVars

\* src/main.py:41-97 api_command_listener: it parses the log line of a
\* manual order, takes the current price of the symbol from the
\* aggregator's active candle (0.0 when there is none: the order is
\* ignored) and delivers a Signal with a fresh uuid id and no stop to
\* on_signal.  The order's qty is parsed and not used.
api_command_listener(symbol, side, current_price, now) ==
  IF current_price = 0
    THEN UNCHANGED engineVars
    ELSE on_signal([id |-> NumIds + 1 + nSignals, symbol |-> symbol,
                    side |-> side, price |-> current_price,
                    timestamp |-> now, stop_loss |-> 0])

\* src/api/server.py:41-51 execute_order broadcasts the order as a log line
\* to the listener
ManualOrder ==
  /\ \E y \in Symbols, d \in Sides, p \in Prices \cup {0}, t \in Timestamps :
       api_command_listener(y, d, p, t)
  /\ UNCHANGED panicActivated
  /\ UNCHANGED legacyVars
  /\ UNCHANGED pipelineVars
  /\ UNCHANGED serviceVars

(***************************************************************************)
(* Control plane of src/legacy/api/server.py.                              *)
(***************************************************************************)
Backends == {"binance_spot", "unknown"}
ApiSymbols == {"BTCUSDT", "BTC-USD"}

\* legacy/api/server.py:232-252 _ensure_adapter: the registry after the
\* call; the stub is installed for binance_spot, any other unknown backend
\* is a 404
ensure_adapter(backend) ==
  IF backend \in registry THEN registry
  ELSE IF backend = "binance_spot" THEN registry \cup {backend}
  ELSE registry

adapter_found(backend) == backend \in ensure_adapter(backend)

\* legacy/api/server.py:254-266 _symbol_valid against the markets of the
\* stub adapter ({"BTCUSDT"}, :240)
symbol_valid(symbol) == symbol = "BTCUSDT"

\* legacy/api/server.py:144-147 health
health ==
  /\ lastReq' = "health"
  /\ httpStatus' = 200
  /\ healthLockout' = IF lockout THEN "true" ELSE "false"
  /\ UNCHANGED <<lockout, panicked, registry, placed>>

\* legacy/api/server.py:268-298 orders_preview
orders_preview(backend, symbol) ==
  /\ lastReq' = "preview"
  /\ registry' = ensure_adapter(backend)
  /\ IF ~ adapter_found(backend)
       THEN httpStatus' = 404 /\ UNCHANGED lockout
       ELSE /\ lockout' = FALSE
            /\ httpStatus' = IF symbol_valid(symbol) THEN 200 ELSE 400
  /\ UNCHANGED <<panicked, placed, healthLockout>>

\* legacy/api/server.py:301-320 orders_execute
orders_execute(backend, symbol) ==
  /\ lastReq' = "execute"
  /\ IF lockout
       THEN httpStatus' = 409 /\ UNCHANGED <<registry, placed>>
       ELSE /\ registry' = ensure_adapter(backend)
            /\ IF ~ adapter_found(backend)
                 THEN httpStatus' = 404 /\ UNCHANGED placed
               ELSE IF ~ symbol_valid(symbol)
                 THEN httpStatus' = 400 /\ UNCHANGED placed
               ELSE httpStatus' = 200 /\ placed' = placed + 1
  /\ UNCHANGED <<lockout, panicked, healthLockout>>

\* legacy/api/server.py:334-345 panic
panic ==
  /\ lastReq' = "panic"
  /\ lockout' = TRUE
  /\ panicked' = TRUE
  /\ httpStatus' = 200
  /\ UNCHANGED <<registry, placed, healthLockout>>

\* what a request to the legacy control plane leaves alone
LegacyFrame ==
  /\ UNCHANGED engineVars /\ UNCHANGED panicActivated
  /\ UNCHANGED pipelineVars /\ UNCHANGED serviceVars

Health == health /\ LegacyFrame

OrdersPreview ==
  /\ \E b \in Backends, y \in ApiSymbols : orders_preview(b, y)
  /\ LegacyFrame

OrdersExecute ==
  /\ placed < MaxOrders
  /\ \E b \in Backends, y \in ApiSymbols : orders_execute(b, y)
  /\ LegacyFrame

Panic == panic /\ LegacyFrame

(***************************************************************************)
(* Equity: the engine's own valuation and the PnL broadcaster.             *)
(***************************************************************************)
RECURSIVE SumOver(_, _)
SumOver(f, S) ==
  IF S = {} THEN 0
  ELSE LET x == CHOOSE x \in S : TRUE IN f[x] + SumOver(f, S \ {x})

\* the symbols that hold a position
Held == { y \in Symbols : positions[y] # NoPos }

\* execution.py:249-273 get_equity: every position is valued at the one
\* current_price of the call, a LONG at its market value, a SHORT at its
\* initial investment plus pnl
get_equity(current_price) ==
  LET value(pos) ==
        IF pos.side = "LONG" THEN pos.qty * current_price * Milli
        ELSE IF pos.side = "SHORT"
          THEN LET initial_invest == pos.qty * pos.entry_price * Milli
                   pnl == (initial_invest * (pos.entry_price - current_price))
                            \div pos.entry_price
               IN  initial_invest + pnl
        ELSE 0
  IN  balance + SumOver([y \in Held |-> value(positions[y])], Held)

\* the payload before the first broadcast
NoPayload == [type |-> "none"]

\* the close of the aggregator's active candle per symbol as the
\* broadcaster finds it; 0 stands for a symbol without an active candle
Marks == [Symbols -> Prices \cup {0}]

\* src/main.py:99-151 pnl_broadcaster, one round of its loop: the mark of a
\* position is the close of its symbol's active candle, else its entry
\* price; the pnl is taken on the long formula only for side "BUY", a value
\* Position.side (LONG or SHORT, execution.py:189) never has
pnl_broadcaster(active_close) ==
  LET current_price(y) == IF active_close[y] # 0 THEN active_close[y]
                          ELSE positions[y].entry_price
      pnl(y) == IF positions[y].side = "BUY"
                  THEN (current_price(y) - positions[y].entry_price)
                         * positions[y].qty * Milli
                  ELSE (positions[y].entry_price - current_price(y))
                         * positions[y].qty * Milli
      total_pnl == SumOver([y \in Held |-> pnl(y)], Held)
  IN  pnlPayload' =
        [type |-> "pnl",
         balance |-> balance,
         equity |-> balance + total_pnl,
         pnl_unrealized |-> total_pnl,
         positions |-> [y \in Held |->
                          [side |-> positions[y].side,
                           entry |-> positions[y].entry_price,
                           mark |-> current_price(y),
                           pnl |-> pnl(y),
                           qty |-> positions[y].qty]]]

PnlBroadcaster ==
  /\ \E m \in Marks : pnl_broadcaster(m)
  /\ UNCHANGED engineVars
  /\ UNCHANGED panicActivated
  /\ UNCHANGED legacyVars
  /\ UNCHANGED aggVars
  /\ UNCHANGED ingVars
  /\ UNCHANGED tickVars
  /\ UNCHANGED serviceVars

\* what a step of the data pipeline leaves alone
PipelineFrame ==
  /\ UNCHANGED engineVars /\ UNCHANGED panicActivated
  /\ UNCHANGED legacyVars /\ UNCHANGED serviceVars

(***************************************************************************)
(* Aggregator: src/src/aggregator.py (TimeBarAggregator) and its runner.   *)
(***************************************************************************)
\* timestamps (ms) and quantities of the ticks of the model
TickTimes == {500, 1000, 1999, 2000}
Qtys == {2}

\* ingestion.py:106-113 the normalized trade record (side does not reach
\* the aggregator's state; type is 'trade' for every record the ingestor
\* builds)
Ticks == [symbol : Symbols, price : Prices, qty : Qtys,
          timestamp : TickTimes]

\* the absent entry of active_candles
NoCandle == [start |-> -1, o |-> 0, h |-> 0, l |-> 0, c |-> 0, v |-> 0]

Max(a, b) == IF a > b THEN a ELSE b
Min(a, b) == IF a < b THEN a ELSE b

\* aggregator.py:32 the start of the tick's window
candle_start(ts) == (ts \div interval_ms) * interval_ms

\* aggregator.py:53-63 _init_candle
init_candle(start, price, qty) ==
  [start |-> start, o |-> price, h |-> price, l |-> price, c |-> price,
   v |-> qty]

\* aggregator.py:65-78 _emit_candle: the Candle put on the output queue
Candle(symbol, c) ==
  [symbol |-> symbol, timestamp |-> c.start, open |-> c.o, high |-> c.h,
   low |-> c.l, close |-> c.c, volume |-> c.v]

\* an update that keeps the last price as the high
update_candle_last(current, price, qty) ==
  [current EXCEPT !.h = price, !.l = Min(current.l, price), !.c = price,
                  !.v = current.v + qty]

\* aggregator.py:47-51 the update of the current candle
update_candle(current, price, qty) ==
  [current EXCEPT !.h = Max(current.h, price), !.l = Min(current.l, price),
                  !.c = price, !.v = current.v + qty]

\* a window test that also fires inside the current window
new_window_inclusive(start, current) == start >= current.start

\* aggregator.py:41 "if candle_start > current['start']"
new_window(start, current) == start > current.start

\* aggregator.py:20-51 process_tick.  The output queue holds
\* CANDLE_QUEUE_SIZE = 1000 candles (main.py:35), more than MaxTicks ticks
\* can emit, so the put of _emit_candle never waits here.
process_tick(tick) ==
  LET symbol == tick.symbol
      start == candle_start(tick.timestamp)
      current == active_candles[symbol]
  IN  IF current = NoCandle
        THEN /\ active_candles' = [active_candles EXCEPT ![symbol] =
                                     init_candle(start, tick.price, tick.qty)]
             /\ UNCHANGED candle_queue
      ELSE IF new_window(start, current)
        THEN /\ candle_queue' = Append(candle_queue, Candle(symbol, current))
             /\ active_candles' = [active_candles EXCEPT ![symbol] =
                                     init_candle(start, tick.price, tick.qty)]
        ELSE /\ active_candles' = [active_candles EXCEPT ![symbol] =
                                     update_candle(current, tick.price,
                                                   tick.qty)]
             /\ UNCHANGED candle_queue

\* main.py:239-256 aggregator_runner, one round of its loop: a tick taken
\* from the input queue is given to process_tick (every record on the
\* queue has type 'trade')
aggregator_runner(tick) ==
  /\ agg_state = "running"
  /\ Len(aggTicks) < MaxTicks
  /\ process_tick(tick)
  /\ aggTicks' = Append(aggTicks, tick)
  /\ UNCHANGED agg_state

\* the aggregator stage on its own: any tick may be next on its queue
AggregatorStep ==
  /\ \E tick \in Ticks : aggregator_runner(tick)
  /\ UNCHANGED pnlVars
  /\ UNCHANGED ingVars
  /\ UNCHANGED tickVars
  /\ PipelineFrame

\* main.py:245-248 and 258-261 aggregator_runner cancelled while it waits
\* for a tick: the loop is left and aggregator.flush_open_candles() is
\* called.  TimeBarAggregator (aggregator.py:8-78) has no method of that
\* name: the call raises AttributeError, which the runner catches and logs
\* ("Flush aggregator echoue"), and the runner returns.
AggregatorShutdown ==
  /\ agg_state = "running"
  /\ agg_state' = "stopped"
  /\ UNCHANGED <<active_candles, candle_queue, aggTicks>>
  /\ UNCHANGED pnlVars
  /\ UNCHANGED ingVars
  /\ UNCHANGED tickVars
  /\ PipelineFrame

(***************************************************************************)
(* Ingestor: src/src/ingestion.py (BinanceIngestor.run, _watchdog and the  *)
(* message path).                                                          *)
(***************************************************************************)
\* what a step of the ingestor leaves alone
IngestFrame ==
  /\ UNCHANGED pnlVars /\ UNCHANGED aggVars /\ UNCHANGED tickVars
  /\ PipelineFrame

\* ingestion.py:67 the backoff after a wait
next_backoff(b) == Min(b * 2, 30)

\* ingestion.py:44-50 websockets.connect succeeds: last_message_time is
\* set, backoff returns to 1, the watchdog task is created and the read
\* loop begins
ConnectOk ==
  /\ ing_state = "connecting"
  /\ ing_state' = "reading"
  /\ silence' = 0
  /\ backoff' = 1
  /\ watchdogs' = watchdogs + 1
  /\ UNCHANGED <<ingWait, ingFails>>
  /\ ing_msg' = "none"
  /\ IngestFrame

\* ingestion.py:44 and 64-73 websockets.connect fails.  ConnectionClosed,
\* TimeoutError and OSError are answered by sleep(backoff) and the
\* doubling; any other exception (a rejected handshake is an
\* InvalidHandshake, not an OSError) by sleep(5), backoff untouched.
ConnectFail ==
  /\ ing_state = "connecting"
  /\ ingFails < MaxFailures
  /\ ingFails' = ingFails + 1
  /\ \E error \in {"OSError", "Exception"} :
       IF error = "OSError"
         THEN ingWait' = backoff /\ backoff' = next_backoff(backoff)
         ELSE ingWait' = 5 /\ UNCHANGED backoff
  /\ UNCHANGED <<ing_state, watchdogs, silence>>
  /\ ing_msg' = "none"
  /\ IngestFrame

\* ingestion.py:52-62 the connection ends while the ingestor reads (the
\* iteration ends or raises ConnectionClosed, caught at :59): the watchdog
\* is cancelled, nothing is raised out of the connection block, and the
\* while loop connects again at once
ConnectionLost ==
  /\ ing_state = "reading"
  /\ ingFails < MaxFailures
  /\ ingFails' = ingFails + 1
  /\ ing_state' = "connecting"
  /\ watchdogs' = 0
  /\ ingWait' = 0
  /\ UNCHANGED <<backoff, silence>>
  /\ ing_msg' = "none"
  /\ IngestFrame

\* the messages of the socket by what _process_message (ingestion.py:94-129)
\* would find in them: an aggTrade event, text that is not JSON, JSON
\* without one of the fields it reads
Frames == {"trade", "malformed", "missing_field"}

\* ingestion.py:53-57 with 89-129 a message arrives.  _process_message
\* calls orjson.loads (:96), and ingestion.py imports json, not orjson
\* (:1-9): the call raises NameError, and so does the evaluation of the
\* first except clause, orjson.JSONDecodeError (:124); the NameError leaves
\* _process_message before anything is put on the queue, passes the
\* finally clause (:61-62, watchdog cancelled) and the connection block and
\* is caught at :71: sleep(5), then a new connection.  last_message_time
\* (:57) is not updated.  This happens before the message is looked at, so
\* for every kind of message alike.
MessageReceived ==
  /\ ing_state = "reading"
  /\ ingFails < MaxFailures
  /\ ingFails' = ingFails + 1
  /\ \E m \in Frames : ing_msg' = m
  /\ ing_state' = "connecting"
  /\ watchdogs' = 0
  /\ ingWait' = 5
  /\ UNCHANGED <<backoff, silence>>
  /\ IngestFrame

\* ingestion.py:78-87 one second passes on a connection without a message
\* and the watchdog, if it lives, wakes from sleep(1).  It reads
\* config.WATCHDOG_TIMEOUT (:84); config is the module attribute of
\* src/config.py:73, which is None (and Settings has no such field): the
\* read raises AttributeError and the watchdog task ends without closing
\* the socket.
SecondOfSilence ==
  /\ ing_state = "reading"
  /\ silence < MaxSilence
  /\ silence' = silence + 1
  /\ watchdogs' = 0
  /\ UNCHANGED <<ing_state, backoff, ingWait, ingFails>>
  /\ ing_msg' = "none"
  /\ IngestFrame

\* ingestion.py:68-70 and 75 the ingestor task is cancelled
IngestorCancel ==
  /\ ing_state # "stopped"
  /\ ing_state' = "stopped"
  /\ watchdogs' = 0
  /\ UNCHANGED <<backoff, silence, ingWait, ingFails>>
  /\ ing_msg' = "none"
  /\ IngestFrame

(***************************************************************************)
(* The tick path: the enqueue block of the ingestor, the fan-out           *)
(* dispatcher (src/main.py:341-375) and the consumers of its two queues.   *)
(***************************************************************************)
\* no record
NoTick == [symbol |-> "NONE", price |-> 0, qty |-> 0, timestamp |-> 0]

\* asyncio.Queue(maxsize=TICK_QUEUE_SIZE), main.py:451-453: full()
full(queue) == Len(queue) >= TICK_QUEUE_SIZE

\* what a step of the tick path leaves alone
TickFrame == UNCHANGED pnlVars /\ UNCHANGED ingVars /\ PipelineFrame

\* ingestion.py:106-122, the part of _process_message after the parse, for
\* one parsed trade (the n-th record carries timestamp 500 * n).  The
\* record is handed to "await self.queue.put(...)": asyncio.Queue.put
\* waits while the queue is full and never raises QueueFull (put_nowait
\* does), so the except QueueFull branch (:118-122), the only place that
\* sets _queue_full_logged, is never entered.  With room the record is
\* queued and the flag cleared; without room the ingestor waits in put.
Enqueue ==
  /\ ing_put = NoTick
  /\ nParsed < MaxTicks
  /\ nParsed' = nParsed + 1
  /\ \E y \in Symbols, p \in Prices :
       LET normalized_data == [symbol |-> y, price |-> p, qty |-> 2,
                               timestamp |-> 500 * (nParsed + 1)]
       IN  IF full(dispatch_queue)
             THEN /\ ing_put' = normalized_data
                  /\ UNCHANGED <<dispatch_queue, queue_full_logged>>
             ELSE /\ dispatch_queue' = Append(dispatch_queue,
                                               normalized_data)
                  /\ queue_full_logged' = FALSE
                  /\ UNCHANGED ing_put
  /\ UNCHANGED fanVars
  /\ UNCHANGED aggVars
  /\ TickFrame

\* ingestion.py:116-117 the waiting put is served once the queue has room
EnqueueResume ==
  /\ ing_put # NoTick
  /\ ~ full(dispatch_queue)
  /\ dispatch_queue' = Append(dispatch_queue, ing_put)
  /\ queue_full_logged' = FALSE
  /\ ing_put' = NoTick
  /\ UNCHANGED nParsed
  /\ UNCHANGED fanVars
  /\ UNCHANGED aggVars
  /\ TickFrame

\* a dispatcher that forgets the aggregator queue
next_put_db_only(at) ==
  IF at = "get" THEN "put_db" ELSE "get"

\* main.py:365-366 the order of the dispatcher's puts: db_queue, then
\* agg_queue, then the next get
next_put(at) ==
  IF at = "get" THEN "put_db"
  ELSE IF at = "put_db" THEN "put_agg"
  ELSE "get"

\* main.py:355-364 the dispatcher takes a message from the source queue;
\* every TICKER_SAMPLE_RATE-th trade is posted to the control plane
\* (_broadcast_ticker, :321-339, failures ignored)
FanGet ==
  /\ fan_state = "get"
  /\ dispatch_queue # <<>>
  /\ fan_msg' = Head(dispatch_queue)
  /\ dispatch_queue' = Tail(dispatch_queue)
  /\ taken' = Append(taken, Head(dispatch_queue))
  /\ counter' = counter + 1
  /\ tickerPosts' = IF (counter + 1) % TICKER_SAMPLE_RATE = 0
                      THEN tickerPosts + 1 ELSE tickerPosts
  /\ fan_state' = next_put("get")
  /\ UNCHANGED <<db_queue, agg_queue, dbPut, aggPut>>
  /\ UNCHANGED <<queue_full_logged, ing_put, nParsed>>
  /\ UNCHANGED aggVars
  /\ TickFrame

\* main.py:365 await db_queue.put(msg): waits while the queue is full
FanPutDb ==
  /\ fan_state = "put_db"
  /\ ~ full(db_queue)
  /\ db_queue' = Append(db_queue, fan_msg)
  /\ dbPut' = Append(dbPut, fan_msg)
  /\ fan_state' = next_put("put_db")
  /\ UNCHANGED <<fan_msg, counter, tickerPosts, agg_queue, taken, aggPut>>
  /\ UNCHANGED enqVars
  /\ UNCHANGED aggVars
  /\ TickFrame

\* main.py:366 await agg_queue.put(msg): waits while the queue is full
FanPutAgg ==
  /\ fan_state = "put_agg"
  /\ ~ full(agg_queue)
  /\ agg_queue' = Append(agg_queue, fan_msg)
  /\ aggPut' = Append(aggPut, fan_msg)
  /\ fan_state' = next_put("put_agg")
  /\ fan_msg' = NoTick
  /\ UNCHANGED <<counter, tickerPosts, db_queue, taken, dbPut>>
  /\ UNCHANGED enqVars
  /\ UNCHANGED aggVars
  /\ TickFrame

\* main.py:357-358 and 367-368 the dispatcher is cancelled where it is
\* suspended: in the get, in the ticker post, or in a put on a full queue
FanCancel ==
  /\ \/ fan_state = "get"
     \/ fan_state = "put_db"
          /\ (full(db_queue) \/ counter % TICKER_SAMPLE_RATE = 0)
     \/ fan_state = "put_agg" /\ full(agg_queue)
  /\ fan_state' = "stopped"
  /\ UNCHANGED <<fan_msg, counter, tickerPosts, db_queue, agg_queue, taken,
                 dbPut, aggPut>>
  /\ UNCHANGED enqVars
  /\ UNCHANGED aggVars
  /\ TickFrame

\* main.py:153-195 data_writer takes a message from the persistence queue
\* (and writes it to the database)
DataWriterGet ==
  /\ db_queue # <<>>
  /\ db_queue' = Tail(db_queue)
  /\ UNCHANGED <<fan_state, fan_msg, counter, tickerPosts, agg_queue, taken,
                 dbPut, aggPut>>
  /\ UNCHANGED enqVars
  /\ UNCHANGED aggVars
  /\ TickFrame

\* main.py:239-256 aggregator_runner takes a tick from the aggregator
\* queue and gives it to process_tick
AggregatorGet ==
  /\ agg_queue # <<>>
  /\ agg_queue' = Tail(agg_queue)
  /\ aggregator_runner(Head(agg_queue))
  /\ UNCHANGED <<fan_state, fan_msg, counter, tickerPosts, db_queue, taken,
                 dbPut, aggPut>>
  /\ UNCHANGED enqVars
  /\ TickFrame

(***************************************************************************)
(* Strategy: src/src/strategy.py (HybridStrategy) with strategy_runner and *)
(* warmup_strategy of src/main.py.  An indicator row holds what            *)
(* _compute_indicators yields for the last two rows of the window: prices  *)
(* in whole units, ADX in points.  Probabilities are in percent.           *)
(***************************************************************************)
Rows ==
  [ADX : {24, 25}, prev_SMA5 : 1..3, prev_SMA20 : {2}, SMA5 : 1..3,
   SMA20 : {2}, SMA200 : {9, 10, 11}, close : {10}, ATR : {0, 1}]

NoRow == [ADX |-> 0, prev_SMA5 |-> 0, prev_SMA20 |-> 0, SMA5 |-> 0,
          SMA20 |-> 0, SMA200 |-> 0, close |-> 0, ATR |-> 0]

\* the (proba, ready) pairs OnlineLearner.on_candle returns
\* (learning.py:77-131): (0.5, False) until the model is trained
Mls ==
  { [proba |-> 50, ready |-> FALSE] } \cup
  { [proba |-> p, ready |-> TRUE] : p \in {40, 55, 60, 70} }

NoMl == [proba |-> 50, ready |-> FALSE]

\* the fields of a Signal (models.py:16-26) the strategy sets from the row
NoSig == [side |-> "NONE", price |-> 0, stop_loss |-> 0, take_profit |-> 0]

\* config.py:23  ML_MIN_CONFIDENCE = 0.6, in percent
ML_MIN_CONFIDENCE == 60

\* strategy.py:108-152: the ADX filter and the technical signal
technical_signal(row) ==
  LET price == row.close
      sl_dist == 2 * row.ATR
      tp_dist == 3 * row.ATR
  IN  IF row.ADX < 25 THEN NoSig
      ELSE IF row.prev_SMA5 <= row.prev_SMA20 /\ row.SMA5 > row.SMA20
        THEN IF price > row.SMA200
               THEN [side |-> "BUY", price |-> price,
                     stop_loss |-> price - sl_dist,
                     take_profit |-> price + tp_dist]
               ELSE NoSig
      ELSE IF row.prev_SMA5 >= row.prev_SMA20 /\ row.SMA5 < row.SMA20
        THEN IF price < row.SMA200
               THEN [side |-> "SELL", price |-> price,
                     stop_loss |-> price + sl_dist,
                     take_profit |-> price - tp_dist]
               ELSE NoSig
      ELSE NoSig

\* strategy.py:154-182: the validation by the learner the strategy holds
\* (ml_enabled is True by default, config.py:22)
ml_filter(signal, has_learner, ml) ==
  IF signal # NoSig /\ has_learner
    THEN IF ~ ml.ready THEN signal
         ELSE IF signal.side = "BUY" /\ ml.proba < ML_MIN_CONFIDENCE
           THEN NoSig
         ELSE IF signal.side = "SELL" /\ ml.proba > 100 - ML_MIN_CONFIDENCE
           THEN NoSig
         ELSE signal
    ELSE signal

\* strategy.py:1-8: the module imports pandas as pd and binds no name np,
\* which _compute_indicators reads at :71
np_bound == FALSE

\* strategy.py:85-182 on_candle on the window cs of the candle's symbol:
\* the window it leaves, whether it raised (NameError at :71, from
\* _compute_indicators) and the Signal it returned (NoSig for None).
\* is_backtest silences the log lines and nothing else.
on_candle(cs, candle, row, has_learner, ml, is_backtest) ==
  LET added == Append(cs, candle)
      kept == IF Len(added) > lookback THEN Tail(added) ELSE added
  IN  IF Len(kept) < min_candles
        THEN [candles |-> kept, raised |-> FALSE, signal |-> NoSig]
      ELSE IF ~ np_bound
        THEN [candles |-> kept, raised |-> TRUE, signal |-> NoSig]
      ELSE [candles |-> kept, raised |-> FALSE,
            signal |-> ml_filter(technical_signal(row), has_learner, ml)]

\* main.py:277-296: what strategy_runner does with the Signal.  With a
\* ready learner it reads learner.prob_buy or learner.prob_sell, which
\* OnlineLearner (learning.py:18-181) does not define: AttributeError,
\* caught at main.py:298.
runner_veto(signal, ml) ==
  IF signal = NoSig THEN "nothing"
  ELSE IF ml.ready THEN "error"
  ELSE "put"

\* main.py:263-301, one round of strategy_runner for the next candle of a
\* symbol; the strategy holds no learner (main.py:467)
strategy_runner(symbol, row, ml) ==
  LET r == on_candle(strat_candles[symbol], fed[symbol] + 1, row, FALSE,
                     NoMl, FALSE)
      put == IF r.raised THEN "error" ELSE runner_veto(r.signal, ml)
  IN  /\ fed[symbol] < MaxCandles
      /\ fed' = [fed EXCEPT ![symbol] = @ + 1]
      /\ strat_candles' = [strat_candles EXCEPT ![symbol] = r.candles]
      /\ strat_y' = symbol
      /\ strat_ml' = ml
      /\ strat_rows' = row
      /\ strat_signal' = r.signal
      /\ strat_raised' = r.raised
      /\ strat_put' = put
      /\ execution_queue' =
           IF put = "put"
             THEN Append(execution_queue, [symbol |-> symbol] @@ r.signal)
             ELSE execution_queue

\* the rows the windows of the candle streams of the model yield, and the
\* answers of its learner
StreamRows == { r \in Rows : r.ADX = 25 /\ r.ATR = 1 /\ r.SMA200 # 10 }
StreamMls == { NoMl, [proba |-> 60, ready |-> TRUE] }

StrategyRunner ==
  /\ \E y \in Symbols, row \in StreamRows, ml \in StreamMls :
       strategy_runner(y, row, ml)
  /\ UNCHANGED <<warm_candles, warm_n>>
  /\ StratFrame

\* the last n elements of a sequence
LastN(s, n) == IF Len(s) <= n THEN s ELSE SubSeq(s, Len(s) - n + 1, Len(s))

FirstTo(n) == [i \in 1..n |-> i]

\* main.py:416-428: the loop of warmup_strategy over the candles of one
\* symbol, on the window cs; the return value of on_candle is dropped, and
\* an exception leaves the loop (the try of :409 encloses it).  The row of
\* a replayed candle does not reach the result.
RECURSIVE warmup_replay(_, _)
warmup_replay(cs, candles_data) ==
  IF candles_data = <<>> THEN cs
  ELSE LET r == on_candle(cs, Head(candles_data), NoRow, FALSE, NoMl, TRUE)
       IN  IF r.raised THEN r.candles
           ELSE warmup_replay(r.candles, Tail(candles_data))

\* main.py:402-438 warmup_strategy for one symbol, on a fresh strategy:
\* the store returns the last warmup_limit of the candles delivered so far
warmup_strategy(symbol) ==
  LET candles_data == LastN(FirstTo(fed[symbol]), warmup_limit) IN
  /\ warm_n' = [warm_n EXCEPT ![symbol] = fed[symbol]]
  /\ warm_candles' = [warm_candles EXCEPT ![symbol] =
                        IF candles_data = <<>> THEN <<>>
                        ELSE warmup_replay(<<>>, candles_data)]

WarmupStrategy ==
  /\ \E y \in Symbols : warmup_strategy(y)
  /\ UNCHANGED <<strat_candles, fed, strat_y, strat_ml, strat_rows,
                 strat_signal, strat_raised, strat_put, execution_queue>>
  /\ StratFrame

\* strategy.py:108-182 and main.py:277-296 applied to one indicator row
\* and one answer of the learner
Decide ==
  /\ \E row \in Rows, has_learner \in BOOLEAN, ml \in Mls :
       LET signal == technical_signal(row)
           out == ml_filter(signal, has_learner, ml)
       IN  /\ dec_row' = row
           /\ dec_learner' = has_learner
           /\ dec_ml' = ml
           /\ dec_signal' = signal
           /\ dec_out' = out
           /\ dec_put' = runner_veto(out, ml)
  /\ DecideFrame

(***************************************************************************)
(* Durable storage of the portfolio.  ExecutionEngine (execution.py:34-273)*)
(* has no operation that writes or reads a snapshot, and neither has       *)
(* main: no action changes persisted.                                      *)
(***************************************************************************)
NoSnapshot == [balance |-> -1, positions |-> [y \in Symbols |-> NoPos]]

(***************************************************************************)
(* The two tasks that call on_signal: execution_runner (main.py:303-319,   *)
(* through engine.execute) and api_command_listener (main.py:41-97,        *)
(* directly at :87).  on_signal is a coroutine; it is suspended at each    *)
(* "await broadcast_log(...)" (an HTTP POST, core/logger.py:58-80), and    *)
(* between two of them it runs without interruption.  task_pc says where   *)
(* a task stands in on_signal:                                             *)
(*   "idle"      not in on_signal                                          *)
(*   "received"  at execution.py:65, the signal is in the window           *)
(*   "closed"    at :236, _close_position has popped the position          *)
(*   "pnl"       at :204 or :74, _execute_paper is over                    *)
(***************************************************************************)
Tasks == {"execution_runner", "api_command_listener"}

\* execution.py:56-65: the idempotence gate, up to the first await
on_signal_begin(k, s) ==
  /\ task_pc[k] = "idle"
  /\ nSignals < MaxTaskSignals
  /\ nSignals' = nSignals + 1
  /\ sig' = s
  /\ closedNow' = FALSE
  /\ openAvail' = 0
  /\ openDebit' = 0
  /\ UNCHANGED <<balance, positions, realized_pnl, last_closure_time,
                 max_position_pct, openCount, task_pos>>
  /\ IF ~ check_idempotency(s.id)
       THEN /\ outcome' = "duplicate"
            /\ UNCHANGED <<processed_signals, seen, task_pc, task_sig>>
       ELSE /\ outcome' = "received"
            /\ processed_signals' = Remember(s.id)
            /\ seen' = seen \cup {s.id}
            /\ task_pc' = [task_pc EXCEPT ![k] = "received"]
            /\ task_sig' = [task_sig EXCEPT ![k] = s]

\* execution.py:132-135 and :145-148: the cooldown gate and
\* _open_position, up to the await of :204
open_if_allowed(k, s, bal) ==
  IF ~ check_cooldown(last_closure_time', s.symbol, s.timestamp)
    THEN /\ outcome' = "cooldown"
         /\ balance' = bal
         /\ openAvail' = 0
         /\ openDebit' = 0
         /\ UNCHANGED <<positions, openCount>>
    ELSE LET newside == IF s.side = "BUY" THEN "LONG" ELSE "SHORT"
             o == open_position(bal, newside, s.price, s.stop_loss,
                                max_position_pct)
         IN  /\ outcome' = o.outcome
             /\ balance' = o.balance
             /\ openAvail' = o.avail
             /\ openDebit' = o.debit
             /\ IF o.outcome = "opened"
                  THEN /\ positions' = [positions EXCEPT ![s.symbol] = o.pos]
                       /\ openCount' = [openCount EXCEPT ![s.symbol] = @ + 1]
                  ELSE UNCHANGED <<positions, openCount>>

\* execution.py:115-148 _execute_paper from its start to its first await:
\* it reads the position of the symbol, then closes the opposite position
\* (:126, :139, suspended at :236) or goes to the open
execute_paper_begin(k) ==
  LET s == task_sig[k]
      current_pos == positions[s.symbol]
      opposite == IF s.side = "BUY" THEN "SHORT" ELSE "LONG"
  IN  /\ task_pc[k] = "received"
      /\ sig' = s
      /\ UNCHANGED <<max_position_pct, processed_signals, seen, nSignals,
                     task_sig>>
      /\ IF current_pos # NoPos /\ current_pos.side = opposite
           THEN LET c == close_position(balance, realized_pnl, current_pos,
                                        s.price)
                IN  /\ positions' = [positions EXCEPT ![s.symbol] = NoPos]
                    /\ balance' = c.balance
                    /\ realized_pnl' = c.realized_pnl
                    /\ openCount' = [openCount EXCEPT ![s.symbol] = @ - 1]
                    /\ closedNow' = TRUE
                    /\ outcome' = "closed"
                    /\ task_pos' = [task_pos EXCEPT ![k] = current_pos]
                    /\ task_pc' = [task_pc EXCEPT ![k] = "closed"]
                    /\ UNCHANGED <<last_closure_time, openAvail, openDebit>>
         ELSE /\ closedNow' = FALSE
              /\ task_pc' = [task_pc EXCEPT ![k] = "pnl"]
              /\ UNCHANGED <<realized_pnl, last_closure_time, task_pos>>
              /\ IF in_position(current_pos)
                   THEN /\ outcome' = "same_side"
                        /\ UNCHANGED <<balance, positions, openCount,
                                       openAvail, openDebit>>
                   ELSE open_if_allowed(k, s, balance)

\* execution.py:127-135 and :140-148: after _close_position returns, the
\* closure time is recorded, current_pos is None and the open follows
execute_paper_resume(k) ==
  LET s == task_sig[k] IN
  /\ task_pc[k] = "closed"
  /\ sig' = s
  /\ closedNow' = FALSE
  /\ last_closure_time' = [last_closure_time EXCEPT ![s.symbol] = s.timestamp]
  /\ task_pc' = [task_pc EXCEPT ![k] = "pnl"]
  /\ task_pos' = [task_pos EXCEPT ![k] = NoPos]
  /\ UNCHANGED <<realized_pnl, max_position_pct, processed_signals, seen,
                 nSignals, task_sig>>
  /\ open_if_allowed(k, s, balance)

\* execution.py:70-74: the PnL line is broadcast and on_signal returns
on_signal_end(k) ==
  /\ task_pc[k] = "pnl"
  /\ task_pc' = [task_pc EXCEPT ![k] = "idle"]
  /\ task_sig' = [task_sig EXCEPT ![k] = NoSignal]
  /\ UNCHANGED task_pos
  /\ UNCHANGED engineVars

\* main.py:303-319 execution_runner takes the next signal of the strategy
\* from the execution queue and awaits engine.execute(signal)
RunnerBegin ==
  /\ \E s \in Signals :
       ValidSignal(s) /\ on_signal_begin("execution_runner", s)
  /\ ConcFrame

\* main.py:55-87 api_command_listener builds the Signal of a manual order
\* (fresh uuid id, price of the active candle, no stop) and awaits
\* engine.on_signal(signal) in its own task
ListenerBegin ==
  /\ \E y \in Symbols, d \in Sides, p \in Prices, t \in Timestamps :
       on_signal_begin("api_command_listener",
                       [id |-> NumIds + 1 + nSignals, symbol |-> y,
                        side |-> d, price |-> p, timestamp |-> t,
                        stop_loss |-> 0])
  /\ ConcFrame

\* a suspended on_signal is resumed by the event loop
TaskStep ==
  /\ \E k \in Tasks :
       \/ execute_paper_begin(k)
       \/ execute_paper_resume(k)
       \/ on_signal_end(k)
  /\ ConcFrame

(***************************************************************************)
(* RiskGuard: src/legacy/core/risk.py.  Equity is in units of 100 (the     *)
(* tests start at 10000), time in seconds; lockout_until = 0 stands for    *)
(* None and lockout_ttl_seconds = 0 for no TTL (both are tested for        *)
(* truth, :59, :104).  daily_high, daily_low, last_update and trades_today *)
(* are written and never read; the model leaves them out.                  *)
(***************************************************************************)
\* risk.py:33  daily_dd_max = 0.05, in percent
daily_dd_max_pct == 5

\* risk.py:39-45 RiskStatus()
NewStatus ==
  [lockout |-> FALSE, seq_losses |-> 0, panic |-> FALSE, lockout_until |-> 0]

\* risk.py:30-37 RiskConfig: the configurations of the model
RiskConfigs ==
  [max_seq_losses : {2, 3}, lockout_ttl_seconds : {0, 2}]

\* results recorded, in units of 100
Pnls == {-3, -1, 0, 1}

\* risk.py:54-56 _daily_dd, compared with daily_dd_max at :67
dd_reached(eq) ==
  (eq.starting_equity - eq.current_equity) * 100
     >= daily_dd_max_pct * eq.starting_equity

\* risk.py:58-63 _refresh_timeouts
refresh_timeouts(st, now) ==
  IF st.lockout_until # 0 /\ now >= st.lockout_until
    THEN [st EXCEPT !.lockout = FALSE, !.panic = FALSE, !.lockout_until = 0]
    ELSE st

\* check_lockout without the test of the consecutive losses
check_lockout_no_seq(st, eq, cfg, now) ==
  LET r == refresh_timeouts(st, now) IN
  [r EXCEPT !.lockout = r.lockout \/ dd_reached(eq) \/ r.panic]

\* risk.py:65-72 check_lockout
check_lockout(st, eq, cfg, now) ==
  LET r == refresh_timeouts(st, now) IN
  [r EXCEPT !.lockout = \/ r.lockout
                        \/ dd_reached(eq)
                        \/ r.seq_losses >= cfg.max_seq_losses
                        \/ r.panic]

\* risk.py:74-83 is_locked and can_trade() (no open_positions given): the
\* answer a call gives in the current state
can_trade == ~ check_lockout(status, equity, rg_cfg, rg_now).lockout

\* the RiskGuard is built: RiskGuard(RiskConfig(...), EquityState(...))
NewRiskGuard ==
  /\ ~ rg_built
  /\ rg_built' = TRUE
  /\ \E cfg \in RiskConfigs : rg_cfg' = cfg
  /\ UNCHANGED <<status, equity, rg_now, rg_tasks, rg_records, rg_run,
                 rg_tripped, rg_panics, rg_panic_at>>
  /\ RiskFrame

\* risk.py:78-83 can_trade(): the call leaves the refreshed status behind
CanTrade ==
  /\ rg_built
  /\ status' = check_lockout(status, equity, rg_cfg, rg_now)
  /\ UNCHANGED <<rg_built, rg_cfg, equity, rg_now, rg_tasks, rg_records,
                 rg_run, rg_tripped, rg_panics, rg_panic_at>>
  /\ RiskFrame

\* risk.py:85-94 record_trade_result
record_trade_result(pnl) ==
  LET counted == [status EXCEPT !.seq_losses =
                    IF pnl < 0 THEN @ + 1 ELSE 0]
      eq == [equity EXCEPT !.current_equity = @ + pnl]
  IN  /\ equity' = eq
      /\ status' = check_lockout(counted, eq, rg_cfg, rg_now)

RecordTradeResult ==
  /\ rg_built
  /\ rg_records < MaxRecords
  /\ rg_records' = rg_records + 1
  /\ \E pnl \in Pnls :
       /\ record_trade_result(pnl)
       /\ rg_run' = IF pnl < 0 THEN rg_run + 1 ELSE 0
       /\ rg_tripped' = \/ rg_tripped
                        \/ (pnl < 0 /\ rg_run + 1 >= rg_cfg.max_seq_losses)
                        \/ dd_reached(equity')
  /\ UNCHANGED <<rg_built, rg_cfg, rg_now, rg_tasks, rg_panics, rg_panic_at>>
  /\ RiskFrame

\* risk.py:99-105 _panic_async, under the lock
panic_async(st, cfg, now) ==
  [st EXCEPT !.panic = TRUE, !.lockout = TRUE,
             !.lockout_until = IF cfg.lockout_ttl_seconds # 0
                                 THEN now + cfg.lockout_ttl_seconds ELSE @]

\* risk.py:114-119 (and the last resort of :130-133): the flags are set
\* directly, a lockout_until already set is kept
panic_direct(st, cfg, now) ==
  [st EXCEPT !.panic = TRUE, !.lockout = TRUE,
             !.lockout_until =
                IF cfg.lockout_ttl_seconds # 0 /\ @ = 0
                  THEN now + cfg.lockout_ttl_seconds ELSE @]

\* the contexts panic() is called in: the lock is held; a loop is running
\* (the handler of POST /panic, legacy/api/server.py:334-345); no loop is
\* running (test_risk_panic)
Contexts == {"locked", "loop", "no_loop"}

\* risk.py:107-133 panic, to its return.  With a running loop it creates a
\* task for _panic_async (:122) and returns; the task has not run yet.
panic_call(ctx) ==
  /\ rg_tasks' = IF ctx = "loop" THEN rg_tasks + 1 ELSE rg_tasks
  /\ status' = IF ctx = "locked" THEN panic_direct(status, rg_cfg, rg_now)
               ELSE IF ctx = "loop" THEN status
               ELSE panic_async(status, rg_cfg, rg_now)

RiskPanic ==
  /\ rg_built
  /\ rg_panics < MaxPanics
  /\ rg_panics' = rg_panics + 1
  /\ rg_panic_at' = rg_now
  /\ \E ctx \in Contexts : panic_call(ctx)
  /\ UNCHANGED <<rg_built, rg_cfg, equity, rg_now, rg_records, rg_run,
                 rg_tripped>>
  /\ RiskFrame

\* the event loop runs a task created by panic()
PanicTask ==
  /\ rg_tasks > 0
  /\ rg_tasks' = rg_tasks - 1
  /\ status' = panic_async(status, rg_cfg, rg_now)
  /\ UNCHANGED <<rg_built, rg_cfg, equity, rg_now, rg_records, rg_run,
                 rg_tripped, rg_panics, rg_panic_at>>
  /\ RiskFrame

\* risk.py:135-146 reset_daily
reset_daily ==
  LET cleared == [status EXCEPT !.seq_losses = 0,
                                !.lockout = IF status.panic THEN @ ELSE FALSE]
  IN  /\ equity' = [equity EXCEPT !.starting_equity = equity.current_equity]
      /\ status' = refresh_timeouts(cleared, rg_now)

ResetDaily ==
  /\ rg_built
  /\ reset_daily
  /\ rg_run' = 0
  /\ rg_tripped' = FALSE
  /\ UNCHANGED <<rg_built, rg_cfg, rg_now, rg_tasks, rg_records, rg_panics,
                 rg_panic_at>>
  /\ RiskFrame

\* a second passes (time.time())
RiskClock ==
  /\ rg_built
  /\ rg_now < MaxTime
  /\ rg_now' = rg_now + 1
  /\ UNCHANGED <<rg_built, rg_cfg, status, equity, rg_tasks, rg_records,
                 rg_run, rg_tripped, rg_panics, rg_panic_at>>
  /\ RiskFrame

(***************************************************************************)
(* size_from_risk: src/core/sizing.py.  risk_amount, entry, stop and       *)
(* min_notional are in whole dollars; step_size, min_qty and the quantity  *)
(* are in thousandths.                                                     *)
(***************************************************************************)
\* interfaces/exchange.py:11-14 MarketRules, the fields size_from_risk reads
MarketRules ==
  [step_size : {1, 5}, min_qty : {1, 10}, min_notional : {5, 100}]

\* the arguments of a call
Sizings ==
  [risk_amount : {-10, 4, 50, 100}, entry : {0, 100, 30000},
   stop : {0, 50, 100, 29900}, rules : MarketRules]

NoSizing ==
  [risk_amount |-> 0, entry |-> 0, stop |-> 0,
   rules |-> [step_size |-> 1, min_qty |-> 0, min_notional |-> 0]]

\* sizing.py:55 "raw // rules.step_size" for raw = num / den: the floor of
\* the quotient.  In binary floating point the floor division of an exact
\* multiple of the step can come out one below the quotient (1.0 // 0.001
\* is 999.0), so both values are results.
floor_div(num, den, step) ==
  LET n == num \div (den * step) IN
  IF num % (den * step) = 0 /\ n > 0 THEN {n, n - 1} ELSE {n}

\* sizing.py:59 round(stepped, 8): to the nearest multiple of 10^-8, which
\* is 10^-5 thousandths
round8(milli) == ((milli * 100000 * 2 + 1) \div 2) \div 100000

\* size_from_risk without the test of the notional of the stepped quantity
size_from_risk_no_notional(risk_amount, entry, stop, rules) ==
  IF entry <= 0 \/ stop <= 0 \/ entry = stop THEN {0}
  ELSE IF risk_amount < rules.min_notional THEN {0}
  ELSE { IF n * rules.step_size < rules.min_qty
           THEN 0 ELSE round8(n * rules.step_size) :
         n \in floor_div(Abs(risk_amount * 1000), Abs(entry - stop),
                         rules.step_size) }

\* sizing.py:45-59 size_from_risk: the quantities a call can return
size_from_risk(risk_amount, entry, stop, rules) ==
  IF entry <= 0 \/ stop <= 0 \/ entry = stop THEN {0}
  ELSE IF risk_amount < rules.min_notional THEN {0}
  ELSE { LET stepped == n * rules.step_size IN
         IF stepped < rules.min_qty
              \/ stepped * entry < rules.min_notional * 1000
           THEN 0 ELSE round8(stepped) :
         n \in floor_div(Abs(risk_amount * 1000), Abs(entry - stop),
                         rules.step_size) }

SizeFromRisk ==
  /\ \E a \in Sizings :
       /\ sz_in' = a
       /\ sz_qty' \in size_from_risk(a.risk_amount, a.entry, a.stop, a.rules)
  /\ SizeFrame

(***************************************************************************)
(* LogManager: src/core/logger.py and, line for line the same,             *)
(* src/src/utils.py; the WebSocket endpoint and the broadcasting handlers  *)
(* of src/api/server.py.  A client is a FastAPI WebSocket: it has a        *)
(* client_state, "connected" standing for the value 1.                     *)
(***************************************************************************)
Clients == 1..NumClients
\* the messages broadcast in one behaviour, each by a broadcast of its own
Messages == {1, 2}

\* the list without its first occurrence of c (list.remove)
RECURSIVE Remove(_, _)
Remove(s, c) ==
  IF s = <<>> THEN <<>>
  ELSE IF Head(s) = c THEN Tail(s)
  ELSE <<Head(s)>> \o Remove(Tail(s), c)

\* a disconnect that leaves the list as it is
disconnect_off(connections, websocket) == connections

\* logger.py:28-30 disconnect: the list it leaves
disconnect(connections, websocket) ==
  IF websocket \in Range(connections) THEN Remove(connections, websocket)
  ELSE connections

\* server.py:61-63 with logger.py:24-26 connect: the socket is accepted and
\* appended
WsConnect ==
  /\ \E c \in Clients :
       /\ client_state[c] = "new"
       /\ client_state' = [client_state EXCEPT ![c] = "connected"]
       /\ active_connections' = Append(active_connections, c)
  /\ UNCHANGED <<bc_pc, bc_todo, bc_start, bc_end, bc_failed, bc_skipped,
                 received>>
  /\ WsFrame

\* server.py:64-75: the client goes away; receive_text raises in the
\* endpoint, which calls disconnect before it yields
WsDisconnect ==
  /\ \E c \in Clients :
       /\ client_state[c] = "connected"
       /\ client_state' = [client_state EXCEPT ![c] = "disconnected"]
       /\ active_connections' = disconnect(active_connections, c)
  /\ UNCHANGED <<bc_pc, bc_todo, bc_start, bc_end, bc_failed, bc_skipped,
                 received>>
  /\ WsFrame

\* logger.py:32-37 broadcast(message), to the copy of the list; with no
\* connection it returns at once
broadcast_begin(b) ==
  /\ bc_pc[b] = "idle"
  /\ bc_start' = [bc_start EXCEPT ![b] = Range(active_connections)]
  /\ IF active_connections = <<>>
       THEN /\ bc_pc' = [bc_pc EXCEPT ![b] = "done"]
            /\ bc_end' = [bc_end EXCEPT ![b] = {}]
            /\ UNCHANGED bc_todo
       ELSE /\ bc_pc' = [bc_pc EXCEPT ![b] = "sending"]
            /\ bc_todo' = [bc_todo EXCEPT ![b] = active_connections]
            /\ UNCHANGED bc_end
  /\ UNCHANGED <<active_connections, client_state, bc_failed, bc_skipped,
                 received>>

\* logger.py:37-49: one round of the loop for the next connection of the
\* copy.  A connected client is sent the message, and the send returns or
\* raises (ok); any other client is disconnected.  After the last round
\* broadcast returns.
broadcast_round(b, ok) ==
  LET connection == Head(bc_todo[b])
      rest == Tail(bc_todo[b])
      sent == client_state[connection] = "connected"
      after == IF sent /\ ok THEN active_connections
               ELSE disconnect(active_connections, connection)
  IN  /\ bc_pc[b] = "sending"
      /\ bc_todo' = [bc_todo EXCEPT ![b] = rest]
      /\ received' = IF sent /\ ok
                       THEN [received EXCEPT ![connection][b] = @ + 1]
                       ELSE received
      /\ bc_failed' = IF sent /\ ~ ok
                        THEN [bc_failed EXCEPT ![b] = @ \cup {connection}]
                        ELSE bc_failed
      /\ bc_skipped' = IF ~ sent
                         THEN [bc_skipped EXCEPT ![b] = @ \cup {connection}]
                         ELSE bc_skipped
      /\ active_connections' = after
      /\ IF rest = <<>>
           THEN /\ bc_pc' = [bc_pc EXCEPT ![b] = "done"]
                /\ bc_end' = [bc_end EXCEPT ![b] = Range(after)]
           ELSE UNCHANGED <<bc_pc, bc_end>>
      /\ UNCHANGED <<client_state, bc_start>>

\* server.py:30-39 broadcast_log_internal (and :41-59) starts a broadcast
BroadcastBegin ==
  /\ \E b \in Messages : broadcast_begin(b)
  /\ WsFrame

BroadcastRound ==
  /\ \E b \in Messages, ok \in BOOLEAN : broadcast_round(b, ok)
  /\ WsFrame

(***************************************************************************)
(* OnlineLearner, src/src/learning.py, on a learner that has been          *)
(* constructed with a configuration.  A candle is its number in the        *)
(* symbol's stream and its close.  The feature vector of                   *)
(* _compute_features is [last log return, last range, relative volume,     *)
(* momentum], each computed from the window that ends at the newest candle *)
(* of the list it is given; the model keeps the number of that newest      *)
(* candle and the sign of the last return.  The models are saved every     *)
(* 100 samples (:88-90), beyond the candles of a behaviour.                *)
(***************************************************************************)
Closes == {1, 2}

Sgn(x) == IF x > 0 THEN 1 ELSE IF x < 0 THEN -1 ELSE 0

\* learning.py:49 deque(maxlen = lookback + 5): append drops the oldest
deque_append(buff, candle) ==
  LET added == Append(buff, candle) IN
  IF Len(added) > learner_lookback + 5 THEN Tail(added) ELSE added

\* learning.py:107-152 _compute_features(candles)
compute_features(candles) ==
  LET n == Len(candles) IN
  [upto |-> candles[n].t,
   last_return |-> Sgn(candles[n].close - candles[n - 1].close)]

\* learning.py:40-105 on_candle: the buffer, the samples the scaler and the
\* model have been fitted on, the count, and whether the answer is ready
learner_on_candle(buff, samples, count, candle) ==
  LET buff1 == deque_append(buff, candle)
      n == Len(buff1)
  IN  IF n < learner_lookback + 2
        THEN [buffer |-> buff1, samples |-> samples, count |-> count,
              ready |-> FALSE]
        ELSE LET features == compute_features(buff1)
                 prev_candle == buff1[n - 1]
                 current_candle == buff1[n]
                 target == IF current_candle.close > prev_candle.close
                             THEN 1 ELSE 0
                 X == features
             IN  [buffer |-> buff1,
                  samples |-> Append(samples,
                                     [X |-> X, target |-> target,
                                      t |-> current_candle.t]),
                  count |-> count + 1,
                  ready |-> ~ (count + 1 < ML_MIN_SAMPLES)]

\* main.py:275 learner.on_candle(candle) on the next candle of a symbol
LearnerOnCandle ==
  /\ \E y \in Symbols, c \in Closes :
       /\ lrn_n[y] < MaxLearnerCandles
       /\ LET r == learner_on_candle(buffers[y], lrn_samples[y],
                                     train_counts[y],
                                     [t |-> lrn_n[y] + 1, close |-> c])
          IN  /\ buffers' = [buffers EXCEPT ![y] = r.buffer]
              /\ lrn_samples' = [lrn_samples EXCEPT ![y] = r.samples]
              /\ train_counts' = [train_counts EXCEPT ![y] = r.count]
              /\ lrn_ready' = r.ready
       /\ lrn_n' = [lrn_n EXCEPT ![y] = @ + 1]
  /\ LearnFrame

(***************************************************************************)
(* The shutdown of src/main.py:497-508.  A task is at one of the awaits of *)
(* its coroutine; task.cancel() makes the event loop throw CancelledError  *)
(* into the task at that await, and the except clauses around the await    *)
(* decide where the task goes: "done" when the coroutine returns or the    *)
(* CancelledError leaves it, "closing" when an async with block is left    *)
(* and its __aexit__ awaits the close of the socket or of the HTTP client. *)
(* CancelledError is a BaseException: except Exception does not catch it,  *)
(* and an except clause does not catch what a sibling handler raises.      *)
(***************************************************************************)
\* main.py:484-495 the tasks, in the order of the list
main_tasks ==
  <<"ws-ingestor", "fanout-dispatcher", "questdb-writer",
    "aggregator-runner", "candle-dispatcher", "candle-writer",
    "strategy-runner", "execution-runner", "api-command-listener",
    "pnl-broadcaster">>

TaskNames == {main_tasks[i] : i \in DOMAIN main_tasks}

\* ingestion.py:34-76 run: from one await to the next.  A message ends in
\* the handler of :71-73, orjson being no name of the module (:96)
ingestor_run_awaits ==
  {<<"connect", "recv">>, <<"connect", "sleep_backoff">>,
   <<"recv", "connect">>, <<"recv", "sleep_error">>,
   <<"sleep_backoff", "connect">>, <<"sleep_error", "connect">>}

\* ingestion.py:64-73 the except clauses of run on a CancelledError
ingestor_run_cancelled(at) ==
  CASE at = "connect" -> "done"
    [] at = "recv" -> "closing"
    [] at \in {"sleep_backoff", "sleep_error"} -> "done"

\* main.py:341-375 fanout_dispatcher, inside async with httpx.AsyncClient
fanout_dispatcher_awaits ==
  {<<"get", "post">>, <<"get", "put_db">>, <<"get", "put_agg">>,
   <<"post", "put_db">>, <<"post", "put_agg">>, <<"post", "get">>,
   <<"put_db", "put_agg">>, <<"put_db", "get">>, <<"put_agg", "get">>}

\* main.py:357-358, :368-369 break, then the client is closed (:353)
fanout_dispatcher_cancelled(at) == "closing"

\* main.py:153-195 data_writer and :197-237 candle_writer
data_writer_awaits ==
  {<<"connect", "get">>, <<"connect", "sleep_reconnect">>,
   <<"sleep_reconnect", "connect">>, <<"get", "send">>, <<"send", "get">>,
   <<"send", "sleep_error">>, <<"sleep_error", "connect">>,
   <<"sleep_error", "get">>}

\* main.py:188-191 db.close() and break; the sleep of :195 is in the handler
\* of :192 and its CancelledError leaves the coroutine
data_writer_cancelled(at) == "done"

\* main.py:239-261 aggregator_runner
aggregator_runner_awaits == {<<"get", "process_tick">>, <<"process_tick",
                               "get">>}

\* main.py:247-248 break, then :258-261; :253-256 let the error through
aggregator_runner_cancelled(at) == "done"

\* main.py:377-400 candle_dispatcher
candle_dispatcher_awaits ==
  {<<"get", "put_strategy">>, <<"get", "put_persist">>,
   <<"put_strategy", "put_persist">>, <<"put_strategy", "get">>,
   <<"put_persist", "get">>}

\* main.py:387-388, :393-394 break
candle_dispatcher_cancelled(at) == "done"

\* main.py:263-301 strategy_runner
strategy_runner_awaits == {<<"get", "put">>, <<"put", "get">>}

\* main.py:271-272 break; :298-301 let the error through
strategy_runner_cancelled(at) == "done"

\* main.py:303-319 execution_runner
execution_runner_awaits == {<<"get", "execute">>, <<"execute", "get">>}

\* main.py:311-312 break; :316-319 let the error through
execution_runner_cancelled(at) == "done"

\* main.py:41-97 api_command_listener
api_command_listener_awaits ==
  {<<"connect", "recv">>, <<"connect", "sleep_error">>,
   <<"recv", "on_signal">>, <<"on_signal", "recv">>,
   <<"recv", "sleep_error">>, <<"sleep_error", "connect">>}

\* the except Exception of main.py:89 catching the CancelledError: the
\* listener logs it and goes on to the next message
api_command_listener_cancelled_caught(at) ==
  CASE at = "connect" -> "done"
    [] at = "recv" -> "closing"
    [] at = "on_signal" -> "recv"
    [] at = "sleep_error" -> "done"

\* main.py:89-97 the inner except Exception lets the error through, the
\* socket of :50 is closed, :92-94 break; the sleep of :97 is in a handler
api_command_listener_cancelled(at) ==
  CASE at = "connect" -> "done"
    [] at \in {"recv", "on_signal"} -> "closing"
    [] at = "sleep_error" -> "done"

\* main.py:99-151 pnl_broadcaster, inside async with httpx.AsyncClient
pnl_broadcaster_awaits == {<<"post", "sleep">>, <<"sleep", "post">>}

\* main.py:146-147 break; the sleep of :151 is outside the try; both leave
\* the async with of :104
pnl_broadcaster_cancelled(at) == "closing"

\* the coroutine of a task
Flow(task) ==
  CASE task = "ws-ingestor" -> ingestor_run_awaits
    [] task = "fanout-dispatcher" -> fanout_dispatcher_awaits
    [] task \in {"questdb-writer", "candle-writer"} -> data_writer_awaits
    [] task = "aggregator-runner" -> aggregator_runner_awaits
    [] task = "candle-dispatcher" -> candle_dispatcher_awaits
    [] task = "strategy-runner" -> strategy_runner_awaits
    [] task = "execution-runner" -> execution_runner_awaits
    [] task = "api-command-listener" -> api_command_listener_awaits
    [] task = "pnl-broadcaster" -> pnl_broadcaster_awaits

\* where the CancelledError thrown at an await takes the task
on_cancel(task, at) ==
  CASE task = "ws-ingestor" -> ingestor_run_cancelled(at)
    [] task = "fanout-dispatcher" -> fanout_dispatcher_cancelled(at)
    [] task \in {"questdb-writer", "candle-writer"} ->
         data_writer_cancelled(at)
    [] task = "aggregator-runner" -> aggregator_runner_cancelled(at)
    [] task = "candle-dispatcher" -> candle_dispatcher_cancelled(at)
    [] task = "strategy-runner" -> strategy_runner_cancelled(at)
    [] task = "execution-runner" -> execution_runner_cancelled(at)
    [] task = "api-command-listener" -> api_command_listener_cancelled(at)
    [] task = "pnl-broadcaster" -> pnl_broadcaster_cancelled(at)

\* the first await of each coroutine
FirstAwait(task) ==
  CASE task \in {"ws-ingestor", "questdb-writer", "candle-writer",
                 "api-command-listener"} -> "connect"
    [] task = "pnl-broadcaster" -> "post"
    [] OTHER -> "get"

\* a task that is not being cancelled runs from its await to the next one
TaskMove ==
  /\ nMoves < MaxMoves
  /\ \E task \in TaskNames :
       /\ \A i \in DOMAIN ready : ready[i] # task
       /\ \E step \in Flow(task) :
            /\ step[1] = task_at[task]
            /\ task_at' = [task_at EXCEPT ![task] = step[2]]
  /\ nMoves' = nMoves + 1
  /\ UNCHANGED <<ready, shutdown, cancelled_at>>
  /\ ShutFrame

\* main.py:503-506 for task in tasks: task.cancel(), then main awaits the
\* tasks; the loop wakes the cancelled tasks in the order of the calls
Shutdown ==
  /\ ~ shutdown
  /\ shutdown' = TRUE
  /\ ready' = main_tasks
  /\ cancelled_at' = task_at
  /\ UNCHANGED <<task_at, nMoves>>
  /\ ShutFrame

\* the event loop throws CancelledError into the next cancelled task
DeliverCancel ==
  /\ ready # <<>>
  /\ LET task == Head(ready) IN
       task_at' = [task_at EXCEPT ![task] = on_cancel(task, @)]
  /\ ready' = Tail(ready)
  /\ UNCHANGED <<shutdown, cancelled_at, nMoves>>
  /\ ShutFrame

\* the __aexit__ of an async with block returns: the socket or the HTTP
\* client is closed, and the task ends
CloseDone ==
  /\ \E task \in TaskNames :
       /\ task_at[task] = "closing"
       /\ task_at' = [task_at EXCEPT ![task] = "done"]
  /\ UNCHANGED <<ready, shutdown, cancelled_at, nMoves>>
  /\ ShutFrame

(***************************************************************************)
(* The cash of the engine.  Beside the engine's own state the model keeps  *)
(* initial_balance (execution.py:42) and, for the properties, the sums of  *)
(* the fees the engine has charged at the opens and at the closes and of   *)
(* the gross PnL of the positions it has closed, qty * (exit - entry) for  *)
(* a LONG and qty * (entry - exit) for a SHORT.                            *)
(***************************************************************************)
\* execution.py:210-213 the fee of a close
exit_fee(pos, price) == (pos.qty * price * Milli * fee_rate_e4) \div 10000

\* the gross PnL of a position closed at a price
gross_pnl_of(pos, price) ==
  IF pos.side = "LONG" THEN pos.qty * (price - pos.entry_price) * Milli
  ELSE pos.qty * (pos.entry_price - price) * Milli

\* execution.py:56-78 on_signal on a signal with an id of its own (a uuid4
\* string, models.py:26), with the sums of what it charged
CashSignal ==
  /\ nSignals < MaxSignals
  /\ \E fresh \in Signals :
       /\ fresh.id = 1
       /\ ValidSignal(fresh)
       /\ LET s == [fresh EXCEPT !.id = nSignals + 1]
              handled == check_idempotency(s.id)
              r == execute_paper(s)
              pos == positions[s.symbol]
              closed == handled /\ r.closed
              opened == handled /\ r.outcome = "opened"
          IN  /\ exit_fees' = exit_fees
                                + (IF closed THEN exit_fee(pos, s.price)
                                   ELSE 0)
              /\ gross_pnl' = gross_pnl
                                + (IF closed THEN gross_pnl_of(pos, s.price)
                                   ELSE 0)
              /\ entry_fees' = entry_fees
                                 + (IF opened
                                      THEN r.debit
                                             - r.pos.qty * s.price * Milli
                                      ELSE 0)
              /\ on_signal(s)
  /\ UNCHANGED initial_balance
  /\ CashFrame

(***************************************************************************)
(* OrderRouter, src/core/router.py.  route is a coroutine: it tests the    *)
(* fingerprint, awaits the executor through the tenacity retry (at most    *)
(* stop_after_attempt attempts, a wait between two of them), and adds the  *)
(* fingerprint after the executor has returned.  A call is suspended while *)
(* the executor runs and while the retry waits.                            *)
(***************************************************************************)
\* router.py:52 stop_after_attempt(3)
stop_after_attempt == 3

Routes == 1..NumRoutes

\* router.py:27-35 Decision: two decisions that differ in their qty
Decisions ==
  { [symbol |-> "BTCUSDT", side |-> "buy", type |-> "market", qty |-> q,
     price |-> 0, sl |-> 0, tp |-> 0] : q \in {1, 2} }

\* router.py:37-39 fingerprint: the digest of the JSON of all the fields in
\* the order of their names, one value per combination of field values
fingerprint(decision) ==
  <<decision.price, decision.qty, decision.side, decision.sl,
    decision.symbol, decision.tp, decision.type>>

Fingerprints == {fingerprint(d) : d \in Decisions}

\* router.py:47 fp in self._executed
already_executed(fp) == fp \in executed

\* router.py:45-49 route up to its await: the duplicate answer, or the
\* first invocation of the executor
RouteBegin ==
  /\ \E call \in Routes, decision \in Decisions :
       LET fp == fingerprint(decision) IN
       /\ route_pc[call] = "idle"
       /\ route_fp' = [route_fp EXCEPT ![call] = fp]
       /\ IF already_executed(fp)
            THEN /\ route_pc' = [route_pc EXCEPT ![call] = "done"]
                 /\ route_result' = [route_result EXCEPT ![call] = "duplicate"]
                 /\ UNCHANGED attempts
            ELSE /\ route_pc' = [route_pc EXCEPT ![call] = "executing"]
                 /\ attempts' = [attempts EXCEPT ![call] = 1]
                 /\ UNCHANGED route_result
  /\ UNCHANGED <<executed, completed>>
  /\ RouteFrame

\* router.py:49-51 the executor returns: the fingerprint is added and the
\* result returned
ExecutorReturns ==
  /\ \E call \in Routes :
       /\ route_pc[call] = "executing"
       /\ completed' = [completed EXCEPT ![route_fp[call]] = @ + 1]
       /\ executed' = executed \cup {route_fp[call]}
       /\ route_result' = [route_result EXCEPT ![call] = "ok"]
       /\ route_pc' = [route_pc EXCEPT ![call] = "done"]
  /\ UNCHANGED <<route_fp, attempts>>
  /\ RouteFrame

\* router.py:52-54 the executor raises: the retry waits, or gives up after
\* the last attempt and route raises
ExecutorRaises ==
  /\ \E call \in Routes :
       /\ route_pc[call] = "executing"
       /\ IF attempts[call] < stop_after_attempt
            THEN /\ route_pc' = [route_pc EXCEPT ![call] = "waiting"]
                 /\ UNCHANGED route_result
            ELSE /\ route_pc' = [route_pc EXCEPT ![call] = "done"]
                 /\ route_result' = [route_result EXCEPT ![call] = "error"]
  /\ UNCHANGED <<executed, completed, route_fp, attempts>>
  /\ RouteFrame

\* router.py:52 the wait of the retry is over: the executor is invoked again
RetryAttempt ==
  /\ \E call \in Routes :
       /\ route_pc[call] = "waiting"
       /\ route_pc' = [route_pc EXCEPT ![call] = "executing"]
       /\ attempts' = [attempts EXCEPT ![call] = @ + 1]
  /\ UNCHANGED <<executed, completed, route_fp, route_result>>
  /\ RouteFrame

(***************************************************************************)
(* A manual order from POST /orders/execute to the engine.  The server     *)
(* (src/api/server.py:41-51) writes the order into a log line, the         *)
(* listener (src/main.py:53-90) splits the line at its spaces and reads    *)
(* the side, the qty and the symbol back.  A float is its digits and its   *)
(* decimal exponent; Python writes it in scientific notation when the      *)
(* exponent is below -4 and float() reads both notations.                  *)
(***************************************************************************)
\* api/server.py:17-22 OrderRequest: qty 0.01, 2.0 or 1e-05
OrderQtys == { [digits |-> 1, exp |-> -2], [digits |-> 2, exp |-> 0],
               [digits |-> 1, exp |-> -5] }

NoOrder == [symbol |-> "NONE", side |-> "NONE",
            qty |-> [digits |-> 0, exp |-> 0], type |-> "NONE"]

OrderRequests ==
  { [symbol |-> y, side |-> d, qty |-> q, type |-> "MARKET"] :
      y \in Symbols, d \in Sides, q \in OrderQtys }

\* the text of a float in an f-string
float_str(x) ==
  IF x.exp < -4 THEN <<"scientific", x.digits, x.exp>>
  ELSE <<"fixed", x.digits, x.exp>>

\* a float() that reads the fixed notation only
parse_float_fixed(text) ==
  IF text[1] = "fixed"
    THEN [ok |-> TRUE, value |-> [digits |-> text[2], exp |-> text[3]]]
    ELSE [ok |-> FALSE, value |-> [digits |-> 0, exp |-> 0]]

\* float(text): the value, or ValueError
parse_float(text) ==
  IF text[1] \in {"fixed", "scientific"}
    THEN [ok |-> TRUE, value |-> [digits |-> text[2], exp |-> text[3]]]
    ELSE [ok |-> FALSE, value |-> [digits |-> 0, exp |-> 0]]

\* api/server.py:45 the log line, split at its spaces as main.py:60 does
order_line(order) ==
  <<"ORDRE", "MANUEL", "RECU:", order.side, float_str(order.qty),
    order.symbol, order.type>>

\* main.py:57-90 the listener on the line of a manual order: a qty that
\* float() does not read ends in the handler of :89, otherwise the signal
\* is built from the side, the symbol and the current price
listener_on_line(parts, current_price, now) ==
  IF ~ parse_float(parts[5]).ok THEN UNCHANGED engineVars
  ELSE api_command_listener(parts[6], parts[4], current_price, now)

\* api/server.py:41-51 execute_order, and the listener on its broadcast
ExecuteOrder ==
  /\ manual.n < MaxManualOrders
  /\ \E order \in OrderRequests, p \in {0, 25, 250}, t \in {5000, 10000} :
       /\ listener_on_line(order_line(order), p, t)
       /\ manual' = [order |-> order, price |-> p, now |-> t,
                     n |-> manual.n + 1]
  /\ ManFrame

\* the balance and the positions after the listener has handled a line
AfterLine(parts, current_price, now) ==
  IF ~ parse_float(parts[5]).ok \/ current_price = 0
    THEN [balance |-> balance, positions |-> positions]
    ELSE LET r == execute_paper([id |-> NumIds + 1 + nSignals,
                                 symbol |-> parts[6], side |-> parts[4],
                                 price |-> current_price, timestamp |-> now,
                                 stop_loss |-> 0])
         IN  [balance |-> r.balance,
              positions |-> [positions EXCEPT ![parts[6]] = r.pos]]

\* execution.py:40-50 ExecutionEngine.__init__ with one of the
\* configurations cs
NewEngine(cs) ==
  /\ \E c \in cs :
       /\ balance = c.initial_balance
       /\ max_position_pct = c.max_position_pct
  /\ positions = [y \in Symbols |-> NoPos]
  /\ realized_pnl = 0
  /\ processed_signals = <<>>
  /\ last_closure_time = [y \in Symbols |-> 0]
  /\ sig = NoSignal
  /\ outcome = "none"
  /\ closedNow = FALSE
  /\ openAvail = 0
  /\ openDebit = 0
  /\ openCount = [y \in Symbols |-> 0]
  /\ seen = {}
  /\ nSignals = 0

\* the control planes and the queues and stages of the data pipeline in
\* their first state, and nothing in durable storage
NewPipeline ==
  /\ panicActivated = FALSE
  /\ lockout = FALSE
  /\ panicked = FALSE
  /\ registry = {}
  /\ lastReq = "none"
  /\ httpStatus = 0
  /\ placed = 0
  /\ healthLockout = "none"
  /\ pnlPayload = NoPayload
  /\ active_candles = [y \in Symbols |-> NoCandle]
  /\ candle_queue = <<>>
  /\ agg_state = "running"
  /\ aggTicks = <<>>
  /\ ing_state = "connecting"
  /\ ing_msg = "none"
  /\ backoff = 1
  /\ watchdogs = 0
  /\ silence = 0
  /\ ingWait = 0
  /\ ingFails = 0
  /\ dispatch_queue = <<>>
  /\ queue_full_logged = FALSE
  /\ ing_put = NoTick
  /\ nParsed = 0
  /\ fan_state = "get"
  /\ fan_msg = NoTick
  /\ counter = 0
  /\ tickerPosts = 0
  /\ db_queue = <<>>
  /\ agg_queue = <<>>
  /\ taken = <<>>
  /\ dbPut = <<>>
  /\ aggPut = <<>>
  /\ persisted = NoSnapshot

\* the engine and the pipeline as main() builds them
EngineBuilt(cs) == NewEngine(cs) /\ NewPipeline

InitEngine == EngineBuilt(EngineConfigs)

\* the components of main.py and of the other packages before any of them
\* has run: the strategy, the tasks that call the engine, RiskGuard,
\* size_from_risk and LogManager
Services ==
  /\ strat_candles = [y \in Symbols |-> <<>>]
  /\ fed = [y \in Symbols |-> 0]
  /\ strat_y = "NONE"
  /\ strat_ml = NoMl
  /\ strat_rows = NoRow
  /\ strat_signal = NoSig
  /\ strat_raised = FALSE
  /\ strat_put = "none"
  /\ execution_queue = <<>>
  /\ warm_candles = [y \in Symbols |-> <<>>]
  /\ warm_n = [y \in Symbols |-> 0]
  /\ dec_row = NoRow
  /\ dec_learner = FALSE
  /\ dec_ml = NoMl
  /\ dec_signal = NoSig
  /\ dec_out = NoSig
  /\ dec_put = "none"
  /\ task_pc = [k \in Tasks |-> "idle"]
  /\ task_sig = [k \in Tasks |-> NoSignal]
  /\ task_pos = [k \in Tasks |-> NoPos]
  /\ rg_built = FALSE
  /\ rg_cfg = [max_seq_losses |-> 3, lockout_ttl_seconds |-> 0]
  /\ status = NewStatus
  /\ equity = [starting_equity |-> 100, current_equity |-> 100]
  /\ rg_now = 1
  /\ rg_tasks = 0
  /\ rg_records = 0
  /\ rg_run = 0
  /\ rg_tripped = FALSE
  /\ rg_panics = 0
  /\ rg_panic_at = 0
  /\ sz_in = NoSizing
  /\ sz_qty = 0
  /\ active_connections = <<>>
  /\ client_state = [c \in Clients |-> "new"]
  /\ bc_pc = [b \in Messages |-> "idle"]
  /\ bc_todo = [b \in Messages |-> <<>>]
  /\ bc_start = [b \in Messages |-> {}]
  /\ bc_end = [b \in Messages |-> {}]
  /\ bc_failed = [b \in Messages |-> {}]
  /\ bc_skipped = [b \in Messages |-> {}]
  /\ received = [c \in Clients |-> [b \in Messages |-> 0]]
  /\ buffers = [y \in Symbols |-> <<>>]
  /\ lrn_samples = [y \in Symbols |-> <<>>]
  /\ train_counts = [y \in Symbols |-> 0]
  /\ lrn_n = [y \in Symbols |-> 0]
  /\ lrn_ready = FALSE
  /\ task_at = [task \in TaskNames |-> FirstAwait(task)]
  /\ ready = <<>>
  /\ shutdown = FALSE
  /\ cancelled_at = [task \in TaskNames |-> "none"]
  /\ nMoves = 0
  /\ initial_balance = 50 * Dollar
  /\ entry_fees = 0
  /\ exit_fees = 0
  /\ gross_pnl = 0
  /\ executed = {}
  /\ route_pc = [call \in Routes |-> "idle"]
  /\ route_fp = [call \in Routes |-> <<>>]
  /\ attempts = [call \in Routes |-> 0]
  /\ route_result = [call \in Routes |-> "none"]
  /\ completed = [fp \in Fingerprints |-> 0]
  /\ manual = [order |-> NoOrder, price |-> 0, now |-> 0, n |-> 0]

\* the engine constructed by itself: execution.py:40-50 builds no other
\* component, and NotBuilt stands for the state of each one
NotBuilt == <<>>

NoServices ==
  /\ strat_candles = NotBuilt
  /\ fed = NotBuilt
  /\ strat_y = NotBuilt
  /\ strat_ml = NotBuilt
  /\ strat_rows = NotBuilt
  /\ strat_signal = NotBuilt
  /\ strat_raised = NotBuilt
  /\ strat_put = NotBuilt
  /\ execution_queue = NotBuilt
  /\ warm_candles = NotBuilt
  /\ warm_n = NotBuilt
  /\ dec_row = NotBuilt
  /\ dec_learner = NotBuilt
  /\ dec_ml = NotBuilt
  /\ dec_signal = NotBuilt
  /\ dec_out = NotBuilt
  /\ dec_put = NotBuilt
  /\ task_pc = NotBuilt
  /\ task_sig = NotBuilt
  /\ task_pos = NotBuilt
  /\ rg_built = NotBuilt
  /\ rg_cfg = NotBuilt
  /\ status = NotBuilt
  /\ equity = NotBuilt
  /\ rg_now = NotBuilt
  /\ rg_tasks = NotBuilt
  /\ rg_records = NotBuilt
  /\ rg_run = NotBuilt
  /\ rg_tripped = NotBuilt
  /\ rg_panics = NotBuilt
  /\ rg_panic_at = NotBuilt
  /\ sz_in = NotBuilt
  /\ sz_qty = NotBuilt
  /\ active_connections = NotBuilt
  /\ client_state = NotBuilt
  /\ bc_pc = NotBuilt
  /\ bc_todo = NotBuilt
  /\ bc_start = NotBuilt
  /\ bc_end = NotBuilt
  /\ bc_failed = NotBuilt
  /\ bc_skipped = NotBuilt
  /\ received = NotBuilt
  /\ buffers = NotBuilt
  /\ lrn_samples = NotBuilt
  /\ train_counts = NotBuilt
  /\ lrn_n = NotBuilt
  /\ lrn_ready = NotBuilt
  /\ task_at = NotBuilt
  /\ ready = NotBuilt
  /\ shutdown = NotBuilt
  /\ cancelled_at = NotBuilt
  /\ nMoves = NotBuilt
  /\ initial_balance = NotBuilt
  /\ entry_fees = NotBuilt
  /\ exit_fees = NotBuilt
  /\ gross_pnl = NotBuilt
  /\ executed = NotBuilt
  /\ route_pc = NotBuilt
  /\ route_fp = NotBuilt
  /\ attempts = NotBuilt
  /\ route_result = NotBuilt
  /\ completed = NotBuilt
  /\ manual = NotBuilt

Init == InitEngine /\ NoServices

\* the pipeline stages next to the engine main() constructs (main.py:475)
InitPipeline ==
  InitEngine /\ Services /\ balance = 50 * Dollar /\ max_position_pct = 20

\* the engine of the pipeline after a first signal, a BUY or a SELL of
\* BTCUSDT at 25 without a stop, has opened a position
HeldEngine ==
  \E d \in Sides :
    LET first == [id |-> 1, symbol |-> "BTCUSDT", side |-> d, price |-> 25,
                  timestamp |-> 5000, stop_loss |-> 0]
        o == open_position(50 * Dollar,
                           IF d = "BUY" THEN "LONG" ELSE "SHORT",
                           first.price, first.stop_loss, 20)
    IN  /\ balance = o.balance
        /\ max_position_pct = 20
        /\ positions = [y \in Symbols |->
                          IF y = first.symbol THEN o.pos ELSE NoPos]
        /\ realized_pnl = 0
        /\ processed_signals = <<first.id>>
        /\ last_closure_time = [y \in Symbols |-> 0]
        /\ sig = first
        /\ outcome = o.outcome
        /\ closedNow = FALSE
        /\ openAvail = o.avail
        /\ openDebit = o.debit
        /\ openCount = [y \in Symbols |->
                          IF y = first.symbol THEN 1 ELSE 0]
        /\ seen = {first.id}
        /\ nSignals = 0

InitHeld == HeldEngine /\ NewPipeline /\ Services

\* the engine with its default configuration
InitExample == EngineBuilt({DefaultConfig}) /\ NoServices

Next == OnSignal

Spec == Init /\ [][Next]_vars

\* the engine with the control plane of src/api/server.py
NextPanic == panic_mode \/ ManualOrder

SpecPanic == Init /\ [][NextPanic]_vars

\* the control plane of src/legacy/api/server.py
NextLegacy == Health \/ OrdersPreview \/ OrdersExecute \/ Panic

SpecLegacy == Init /\ [][NextLegacy]_vars

\* the engine with the PnL broadcaster
NextPnl == OnSignal \/ PnlBroadcaster

SpecPnl == Init /\ [][NextPnl]_vars

\* the aggregator stage
NextAgg == AggregatorStep \/ AggregatorShutdown

SpecAgg == InitPipeline /\ [][NextAgg]_vars

\* the ingestor's connection loop
NextIngest ==
  \/ ConnectOk
  \/ ConnectFail
  \/ ConnectionLost
  \/ MessageReceived
  \/ SecondOfSilence
  \/ IngestorCancel

SpecIngest == InitPipeline /\ [][NextIngest]_vars

\* the tick path from a parsed record to the consumers of the fan-out
NextTicks ==
  \/ Enqueue
  \/ EnqueueResume
  \/ FanGet
  \/ FanPutDb
  \/ FanPutAgg
  \/ FanCancel
  \/ DataWriterGet
  \/ AggregatorGet

SpecTicks == InitPipeline /\ [][NextTicks]_vars

\* the strategy stage: strategy_runner and the warm-up
NextStrategy == StrategyRunner \/ WarmupStrategy

SpecStrategy == InitPipeline /\ [][NextStrategy]_vars

\* the decision block of the strategy with the runner's veto
NextDecide == Decide

SpecDecide == InitPipeline /\ [][NextDecide]_vars

\* the engine under its two callers, one step of on_signal at a time
NextTasks == RunnerBegin \/ ListenerBegin \/ TaskStep

SpecTasks == InitPipeline /\ [][NextTasks]_vars

\* the two callers of an engine that holds a position
SpecTasksHeld == InitHeld /\ [][NextTasks]_vars

\* the RiskGuard under its callers
NextRisk ==
  \/ NewRiskGuard
  \/ CanTrade
  \/ RecordTradeResult
  \/ RiskPanic
  \/ PanicTask
  \/ ResetDaily
  \/ RiskClock

SpecRisk == InitPipeline /\ [][NextRisk]_vars

\* size_from_risk applied to its arguments
NextSizing == SizeFromRisk

SpecSizing == InitPipeline /\ [][NextSizing]_vars

\* the log manager of the control plane with its clients
NextBroadcast == WsConnect \/ WsDisconnect \/ BroadcastBegin \/ BroadcastRound

SpecBroadcast == InitPipeline /\ [][NextBroadcast]_vars

\* the engine of the default configuration under bracketed signals
NextExample == ExampleSignal

SpecExample == InitExample /\ [][NextExample]_vars

\* the learner under a stream of candles
NextLearner == LearnerOnCandle

SpecLearner == InitPipeline /\ [][NextLearner]_vars

\* the tasks of main.py and their shutdown.  The event loop runs every
\* callback that is ready, and the close of a socket or of an HTTP client
\* is bounded by its timeout: both steps are taken when they stay enabled.
NextShutdown == TaskMove \/ Shutdown \/ DeliverCancel \/ CloseDone

SpecShutdown ==
  /\ InitPipeline /\ [][NextShutdown]_vars
  /\ WF_vars(DeliverCancel) /\ WF_vars(CloseDone)

\* the engine and the sums of its fees and of its gross PnL
NextCash == CashSignal

SpecCash == InitPipeline /\ [][NextCash]_vars

\* OrderRouter under concurrent calls of route
NextRouter == RouteBegin \/ ExecutorReturns \/ ExecutorRaises \/ RetryAttempt

SpecRouter == InitPipeline /\ [][NextRouter]_vars

\* the engine under manual orders
NextManual == ExecuteOrder

SpecManual == InitPipeline /\ [][NextManual]_vars

(***************************************************************************)
(* Properties.                                                             *)
(***************************************************************************)
\* a signal was delivered to on_signal in this step
Delivered == nSignals' = nSignals + 1

\* ... and it passed the idempotence gate
Accepted == Delivered /\ outcome' # "duplicate"

\* the portfolio is left as it was
PortfolioUnchanged ==
  /\ balance' = balance
  /\ positions' = positions
  /\ realized_pnl' = realized_pnl

OppositeOf(side) == IF side = "BUY" THEN "SHORT" ELSE "LONG"
SideOf(side) == IF side = "BUY" THEN "LONG" ELSE "SHORT"

\* C1: in every reachable state each symbol has at most one open position:
\* the positions opened (and paid for) and not yet closed on a symbol number
\* at most one, and that one is the entry of the position map.
C1_AtMostOnePositionPerSymbol ==
  \A y \in Symbols :
    /\ openCount[y] <= 1
    /\ openCount[y] = 1 <=> positions[y] # NoPos

\* a signal arrived for a symbol that already held a position of its side
C1_Witness ==
  /\ outcome = "same_side"
  /\ positions[sig.symbol] # NoPos
  /\ positions[sig.symbol].side = SideOf(sig.side)

\* C2 (as stated): a signal whose id was processed before, however long
\* ago, changes neither balance, positions nor realized_pnl.
C2_DuplicateNeverActedUpon ==
  [][Delivered /\ sig'.id \in seen => PortfolioUnchanged]_vars

\* C2 (amended): a signal whose id is still in the window of the
\* max_processed_signals most recently accepted ids is dropped and changes
\* neither balance, positions nor realized_pnl.
C2_DuplicateInWindowDropped ==
  [][Delivered /\ sig'.id \in Range(processed_signals)
       => outcome' = "duplicate" /\ PortfolioUnchanged
          /\ processed_signals' = processed_signals]_vars

\* a duplicate was dropped while a position it could have closed was open
C2_Witness ==
  /\ outcome = "duplicate"
  /\ positions[sig.symbol] # NoPos
  /\ positions[sig.symbol].side = OppositeOf(sig.side)

\* C3: a signal against a position of the opposite side closes it and opens
\* a position of the signal's side, so the symbol then holds the new side.
C3_ReversalOpensNewSide ==
  [][Accepted /\ positions[sig'.symbol] # NoPos
       /\ positions[sig'.symbol].side = OppositeOf(sig'.side)
       => /\ closedNow'
          /\ positions'[sig'.symbol] # NoPos
          /\ positions'[sig'.symbol].side = SideOf(sig'.side)]_vars

\* the signal reached the cooldown gate: accepted, and no position of its
\* side on the symbol
AtCooldownGate == Accepted /\ outcome' # "same_side"

\* time between the signal and the symbol's last closure as the gate sees it
SinceClosure == sig'.timestamp - last_closure_time'[sig'.symbol]

\* C4 (as stated): the cooldown is 3000 ms: a signal that reaches the gate
\* at last_close_ts + 3000 or later passes it, an earlier one is rejected.
C4_CooldownBoundary3000 ==
  [][AtCooldownGate
       => (outcome' = "cooldown" <=> SinceClosure < 3000)]_vars

\* C4 (amended): the cooldown is 5000 ms: a signal that reaches the gate is
\* rejected by it iff its timestamp is less than last_closure_time + 5000;
\* exactly last_closure_time + 5000 passes, one millisecond earlier does not.
C4_CooldownBoundary5000 ==
  [][AtCooldownGate
       => (outcome' = "cooldown" <=> SinceClosure < 5000)]_vars

\* a position was opened exactly 5000 ms after a closure on the symbol
C4_Witness ==
  /\ outcome = "opened"
  /\ last_closure_time[sig.symbol] > 0
  /\ sig.timestamp = last_closure_time[sig.symbol] + 5000

\* C5 (as stated): a signal for a symbol on which the previous signal
\* opened a position, arriving within the cooldown of it, is dropped by the
\* cooldown gate: a cooldown event and no change of state.
C5_CooldownAfterOpen ==
  [][Accepted /\ outcome = "opened" /\ sig'.symbol = sig.symbol
       /\ sig'.timestamp >= sig.timestamp
       /\ sig'.timestamp - sig.timestamp < 3000
       => outcome' = "cooldown" /\ PortfolioUnchanged]_vars

\* C5 (amended): the cooldown runs from the symbol's last closure only.  A
\* signal for a symbol without a position, less than 5000 ms after
\* last_closure_time (0 when nothing was closed yet), is dropped by the
\* cooldown gate before anything is opened: a cooldown event, and balance,
\* positions, realized_pnl and last_closure_time are unchanged.  A signal
\* for a symbol holding a position of its own side, such as an identical
\* cross right after an open, also changes nothing, but it is dropped for
\* the existing position and yields no cooldown event.
C5_CooldownAfterClosure ==
  [][Accepted
       => /\ (positions[sig'.symbol] = NoPos
               /\ sig'.timestamp - last_closure_time[sig'.symbol] < 5000)
             => /\ outcome' = "cooldown"
                /\ PortfolioUnchanged
                /\ last_closure_time' = last_closure_time
          /\ (positions[sig'.symbol] # NoPos
               /\ positions[sig'.symbol].side = SideOf(sig'.side))
             => /\ outcome' = "same_side"
                /\ PortfolioUnchanged
                /\ last_closure_time' = last_closure_time]_vars

\* a signal was dropped by the cooldown gate after a real closure
C5_Witness ==
  /\ outcome = "cooldown"
  /\ ~ closedNow
  /\ last_closure_time[sig.symbol] > 0
  /\ sig.timestamp >= last_closure_time[sig.symbol]

\* C6: a signal that ends in a business rejection leaves balance, positions,
\* realized_pnl and last_closure_time as they were.
C6_RejectionWithoutSideEffect ==
  [][Delivered /\ outcome' \in {"duplicate", "cooldown", "insufficient",
                                "min_notional", "qty_zero"}
       => PortfolioUnchanged /\ last_closure_time' = last_closure_time]_vars

\* C7: an open whose cost + fee exceeds the balance is rejected and leaves
\* the balance and the symbol's position alone; a successful open debits
\* exactly qty*price + qty*price*fee_rate, which did not exceed the balance,
\* so a non-negative balance stays non-negative across every open.
C7_OpenWithinFunds ==
  [][Accepted
       => /\ outcome' = "opened"
             => LET pos == positions'[sig'.symbol]
                    cost == pos.qty * pos.entry_price * Milli
                IN  /\ openDebit' = cost + (cost * 4) \div 10000
                    /\ openDebit' <= openAvail'
                    /\ balance' = openAvail' - openDebit'
                    /\ balance' >= 0
          /\ outcome' = "insufficient"
             => /\ openDebit' > openAvail'
                /\ balance' = openAvail'
                /\ positions'[sig'.symbol] = NoPos
                /\ (~ closedNow' => PortfolioUnchanged)]_vars

\* an open was rejected for lack of funds
C7_Witness == outcome = "insufficient" /\ openDebit > openAvail

\* C8: the cash balance is never negative.
C8_BalanceNonNegative == balance >= 0

\* C9: once POST /panic was handled, every POST /orders/execute is answered
\* 409 and GET /health reports lockout = true.
C9_PanicLocksOut ==
  panicked => /\ lastReq = "execute" => httpStatus = 409
              /\ lastReq = "health" => healthLockout = "true"

\* C10: after a panic issued through the control plane the engine drops
\* every signal: no position is opened or closed, the balance does not
\* change.
C10_PanicStopsEngine ==
  [][panicActivated => balance' = balance /\ positions' = positions]_vars

\* the position a close of this step closed, its exit price, and the terms
\* of the close as the specification of the close states them
ClosedPos == positions[sig'.symbol]
ExitValue == ClosedPos.qty * sig'.price * Milli
ExitFee == (ExitValue * fee_rate_e4) \div 10000
InitialCost == ClosedPos.qty * ClosedPos.entry_price * Milli
GrossPnl ==
  IF ClosedPos.side = "LONG"
    THEN (sig'.price - ClosedPos.entry_price) * ClosedPos.qty * Milli
    ELSE (ClosedPos.entry_price - sig'.price) * ClosedPos.qty * Milli

\* C11: on every close the balance is credited initial_cost + gross_pnl -
\* fee, realized_pnl increases by exactly gross_pnl - fee, and the close
\* timestamp is recorded in last_closure_time[symbol].  (The balance is
\* compared right after the close: no open follows a close in the same
\* signal, the cooldown gate sees the closure just recorded.)
C11_CloseAccounting ==
  [][Accepted /\ closedNow'
       => /\ outcome' = "cooldown"
          /\ balance' = balance + InitialCost + GrossPnl - ExitFee
          /\ realized_pnl' = realized_pnl + GrossPnl - ExitFee
          /\ last_closure_time'[sig'.symbol] = sig'.timestamp]_vars

\* unrealized pnl of a position at a mark
Unrealized(side, entry, qty, mark) ==
  IF side = "LONG" THEN (mark - entry) * qty * Milli
  ELSE (entry - mark) * qty * Milli

\* C12: whenever the broadcaster has published, the equity computed by the
\* engine, and the equity and per-position pnl published by the PnL
\* broadcaster, equal balance + the sum of the unrealized pnl of the
\* positions, (mark - entry) * qty for a LONG and (entry - mark) * qty for a
\* SHORT, each position at the mark of its own symbol (for the engine,
\* which takes one price: when every mark is that price).
C12_EquityIsBalancePlusUnrealized ==
  pnlPayload.type = "pnl"
    => /\ \A p \in Prices :
            get_equity(p) =
              balance + SumOver([y \in Held |->
                                   Unrealized(positions[y].side,
                                              positions[y].entry_price,
                                              positions[y].qty, p)], Held)
       /\ LET pp == pnlPayload.positions
              u(y) == Unrealized(pp[y].side, pp[y].entry, pp[y].qty,
                                 pp[y].mark)
          IN  /\ \A y \in DOMAIN pp : pp[y].pnl = u(y)
              /\ pnlPayload.equity =
                   pnlPayload.balance
                     + SumOver([y \in DOMAIN pp |-> u(y)], DOMAIN pp)

(***************************************************************************)
(* Aggregator properties.                                                  *)
(***************************************************************************)
\* the tick the aggregator was given in this step
TickGiven == aggTicks' # aggTicks
TheTick == aggTicks'[Len(aggTicks')]

\* the ticks of a symbol whose window starts at start, in arrival order
TicksOf(symbol, start) ==
  LET InWindow(t) == t.symbol = symbol /\ candle_start(t.timestamp) = start
  IN  SelectSeq(aggTicks, InWindow)

\* the ticks of a symbol arrived with non-decreasing timestamps
Monotone(symbol) ==
  \A i, j \in DOMAIN aggTicks :
    (i < j /\ aggTicks[i].symbol = symbol /\ aggTicks[j].symbol = symbol)
      => aggTicks[i].timestamp <= aggTicks[j].timestamp

\* C13: every candle on the output queue has low <= open <= high,
\* low <= close <= high and a start that is a multiple of interval_ms; and
\* when the ticks of its symbol arrived with monotone timestamps, its low
\* is the minimum and its high the maximum of the prices of the ticks of
\* its window, its open the first and its close the last of them, and its
\* volume the sum of their quantities.
C13_CandleInvariants ==
  \A k \in DOMAIN candle_queue :
    LET c == candle_queue[k]
        w == TicksOf(c.symbol, c.timestamp)
        prices == { w[i].price : i \in DOMAIN w }
    IN  /\ c.low <= c.open /\ c.open <= c.high
        /\ c.low <= c.close /\ c.close <= c.high
        /\ c.timestamp % interval_ms = 0
        /\ Monotone(c.symbol)
             => /\ Len(w) > 0
                /\ c.low \in prices /\ \A q \in prices : c.low <= q
                /\ c.high \in prices /\ \A q \in prices : q <= c.high
                /\ c.open = w[1].price
                /\ c.close = w[Len(w)].price
                /\ c.volume = SumOver([i \in DOMAIN w |-> w[i].qty], DOMAIN w)

\* a candle built from several ticks at different prices, in order, was
\* emitted
C13_Witness ==
  \E k \in DOMAIN candle_queue :
    /\ Monotone(candle_queue[k].symbol)
    /\ candle_queue[k].high > candle_queue[k].low
    /\ candle_queue[k].open > candle_queue[k].close
    /\ Len(TicksOf(candle_queue[k].symbol, candle_queue[k].timestamp)) > 2

\* C14: a tick whose window starts before the symbol's open candle is
\* discarded: the open candle is unchanged and no candle is emitted.
C14_OutOfOrderDiscarded ==
  [][TickGiven
       /\ active_candles[TheTick.symbol] # NoCandle
       /\ candle_start(TheTick.timestamp)
            < active_candles[TheTick.symbol].start
       => active_candles' = active_candles /\ candle_queue' = candle_queue]_vars

\* C15: per symbol, the open candle is emitted at the tick of that symbol
\* whose window starts after the candle's start, and at no other tick; the
\* tick then opens the candle of its own window (a timestamp that is a
\* multiple of the interval starts the window at that timestamp); the start
\* of an emitted candle is greater than the start of every candle emitted
\* before it for the symbol, so no candle is emitted twice.
C15_EmittedOnceInOrder ==
  [][TickGiven
       => LET y == TheTick.symbol
              cur == active_candles[y]
              start == candle_start(TheTick.timestamp)
          IN  IF cur # NoCandle /\ start > cur.start
                THEN /\ candle_queue' = Append(candle_queue, Candle(y, cur))
                     /\ active_candles'[y].start = start
                     /\ TheTick.timestamp % interval_ms = 0
                          => active_candles'[y].start = TheTick.timestamp
                     /\ \A k \in DOMAIN candle_queue :
                          candle_queue[k].symbol = y
                            => candle_queue[k].timestamp < cur.start
                ELSE candle_queue' = candle_queue]_vars

\* two candles of one symbol were emitted, the second by a tick on a
\* window boundary
C15_Witness ==
  /\ aggTicks # <<>>
  /\ aggTicks[Len(aggTicks)].timestamp % interval_ms = 0
  /\ \E j, k \in DOMAIN candle_queue :
       /\ j < k /\ k = Len(candle_queue)
       /\ candle_queue[j].symbol = candle_queue[k].symbol
       /\ candle_queue[k].symbol = aggTicks[Len(aggTicks)].symbol
       /\ active_candles[candle_queue[k].symbol].start
            = aggTicks[Len(aggTicks)].timestamp

\* C16: once the aggregator stage has terminated, every candle that was
\* still open is on the output queue.
C16_FlushOnShutdown ==
  agg_state = "stopped"
    => \A y \in Symbols :
         active_candles[y] # NoCandle
           => \E k \in DOMAIN candle_queue :
                candle_queue[k] = Candle(y, active_candles[y])

(***************************************************************************)
(* Ingestor properties.                                                    *)
(***************************************************************************)
RECURSIVE Pow2(_)
Pow2(n) == IF n = 0 THEN 1 ELSE 2 * Pow2(n - 1)

\* C18: after every connection loss or failed connection attempt the
\* ingestor waits before it connects again, and the waits of consecutive
\* failures are 1, 2, 4, ... seconds, doubling and capped at 30; the wait
\* returns to 1 s only after a message was received successfully (no
\* message is, see MessageReceived, so the waits follow the whole series).
C18_BackoffSeries ==
  [][ingFails' = ingFails + 1
       => ingWait' = Min(Pow2(ingFails), 30)]_vars

\* C19: a connection is never followed for more than watchdog_timeout
\* seconds (15, spec 4.1) without a message: the watchdog closes the socket
\* at its first look after that, which ends the read loop.  At most one
\* watchdog lives per connection and none outlives the read loop.
C19_WatchdogClosesSilentSocket ==
  /\ ing_state = "reading" => silence <= 15
  /\ watchdogs <= 1
  /\ ing_state # "reading" => watchdogs = 0

(***************************************************************************)
(* Tick path properties.                                                   *)
(***************************************************************************)
\* s is the sequence t without its last element
AllButLast(s, t) == t # <<>> /\ s = SubSeq(t, 1, Len(t) - 1)

C20_FanoutExactlyOnceInOrder ==
  /\ fan_state = "get" => dbPut = taken /\ aggPut = taken
  /\ fan_state = "put_db"
       => /\ taken # <<>> /\ fan_msg = taken[Len(taken)]
          /\ AllButLast(dbPut, taken) /\ aggPut = dbPut
  /\ fan_state = "put_agg"
       => /\ taken # <<>> /\ fan_msg = taken[Len(taken)]
          /\ dbPut = taken /\ AllButLast(aggPut, taken)
  /\ Len(db_queue) <= TICK_QUEUE_SIZE /\ Len(agg_queue) <= TICK_QUEUE_SIZE
  /\ Len(db_queue) <= Len(dbPut)
  /\ db_queue = SubSeq(dbPut, Len(dbPut) - Len(db_queue) + 1, Len(dbPut))
  /\ Len(agg_queue) <= Len(aggPut)
  /\ agg_queue = SubSeq(aggPut, Len(aggPut) - Len(agg_queue) + 1,
                        Len(aggPut))

\* the dispatcher waits on the full aggregator queue with a tick already
\* on the persistence queue, after earlier ticks went through
C20_Witness ==
  /\ fan_state = "put_agg"
  /\ full(agg_queue)
  /\ Len(taken) > TICK_QUEUE_SIZE
  /\ dbPut = taken
  /\ AllButLast(aggPut, taken)

(***************************************************************************)
(* Strategy.                                                               *)
(***************************************************************************)
\* the last round of strategy_runner ran on_candle on a full history
HasHistory == Len(strat_candles[strat_y]) >= min_candles

GoldenCross(row) == row.prev_SMA5 <= row.prev_SMA20 /\ row.SMA5 > row.SMA20

DeathCross(row) == row.prev_SMA5 >= row.prev_SMA20 /\ row.SMA5 < row.SMA20

\* C21: for every closed candle the strategy emits a BUY iff the symbol
\* has the history, ADX >= 25, the SMA5 crosses above the SMA20 and the
\* close is above the SMA200, a SELL iff the mirrored conditions hold, and
\* nothing otherwise (rows with ATR <= 0 aside; the strategy holds no
\* learner).
C21_SignalIffRules ==
  (strat_y # "NONE" /\ strat_rows.ATR > 0) =>
     /\ strat_signal.side = "BUY" <=>
          /\ HasHistory /\ strat_rows.ADX >= 25 /\ GoldenCross(strat_rows)
          /\ strat_rows.close > strat_rows.SMA200
     /\ strat_signal.side = "SELL" <=>
          /\ HasHistory /\ strat_rows.ADX >= 25 /\ DeathCross(strat_rows)
          /\ strat_rows.close < strat_rows.SMA200

C24_WarmupEquivalence ==
  /\ execution_queue = <<>>
  /\ \A y \in Symbols :
       (warm_n[y] > 0 /\ warm_n[y] = fed[y]) =>
          warm_candles[y] = strat_candles[y]

(***************************************************************************)
(* Persistence and the callers of the engine.                              *)
(***************************************************************************)
\* C25: after every successful open or close the persisted snapshot equals
\* the in-memory portfolio (balance and positions).
C25_SnapshotAfterMutation ==
  (outcome = "opened" \/ closedNow) =>
     persisted = [balance |-> balance, positions |-> positions]

\* C26: the engine's state is mutated by one task only, so that the
\* handling of one signal is never interleaved with the handling of
\* another: at most one task is inside on_signal.
C26_SingleExecutionTask ==
  Cardinality({ k \in Tasks : task_pc[k] # "idle" }) <= 1

(***************************************************************************)
(* RiskGuard.                                                              *)
(***************************************************************************)
\* C27 as stated: with the drawdown below daily_dd_max and no panic,
\* can_trade() is true exactly while fewer than max_seq_losses consecutive
\* negative results have been recorded.
C27_TrueWhileFewerLosses ==
  (rg_built /\ ~ dd_reached(equity) /\ rg_panics = 0) =>
     (can_trade <=> rg_run < rg_cfg.max_seq_losses)

\* C27: with the drawdown below daily_dd_max and no panic, can_trade() is
\* true until a recorded result is the max_seq_losses-th consecutive
\* negative one (or takes the drawdown to the limit) and false from then on
\* until reset_daily; the counter of consecutive losses is the number of
\* negative results since the last non-negative one.
C27_SeqLossLockout ==
  (rg_built /\ ~ dd_reached(equity) /\ rg_panics = 0) =>
     /\ can_trade <=> ~ rg_tripped
     /\ status.seq_losses = rg_run

\* a non-negative result has reset the counter after the lockout
C27_Witness ==
  /\ rg_built /\ ~ dd_reached(equity) /\ rg_panics = 0
  /\ rg_tripped /\ rg_run = 0 /\ rg_records > rg_cfg.max_seq_losses
  /\ ~ can_trade

C29_SizeFromRisk ==
  LET rules == sz_in.rules IN
  IF \/ sz_in.risk_amount < rules.min_notional
     \/ sz_in.entry <= 0 \/ sz_in.stop <= 0 \/ sz_in.entry = sz_in.stop
    THEN sz_qty = 0
    ELSE \/ sz_qty = 0
         \/ /\ sz_qty % rules.step_size = 0
            /\ sz_qty >= rules.min_qty
            /\ sz_qty * sz_in.entry >= rules.min_notional * 1000
            /\ sz_qty * Abs(sz_in.entry - sz_in.stop)
                 <= sz_in.risk_amount * 1000

\* the sizing of test_size_from_risk_basic returned a quantity
C29_Witness ==
  /\ sz_in.risk_amount = 100 /\ sz_in.entry = 30000 /\ sz_in.stop = 29900
  /\ sz_in.rules = [step_size |-> 1, min_qty |-> 1, min_notional |-> 5]
  /\ sz_qty > 0

(***************************************************************************)
(* Broadcast.                                                              *)
(***************************************************************************)
\* C30 as stated: when a broadcast has completed, also under interleaved
\* connects, disconnects and broadcasts, every client whose send failed or
\* that was not connected is out of the active set and every client in the
\* set has received the message exactly once.
C30_AllRemainingReceived ==
  \A b \in Messages :
     bc_pc[b] = "done" =>
        /\ (bc_failed[b] \cup bc_skipped[b]) \cap bc_end[b] = {}
        /\ \A c \in bc_end[b] : received[c][b] = 1

\* C30: when a broadcast has completed, also under interleaved connects,
\* disconnects and broadcasts, every client whose send failed or that was
\* not connected at its turn is out of the active set, every client in the
\* set that was in it when the broadcast began has received the message
\* exactly once, and so has every other client of that beginning set whose
\* send did not fail and that was connected at its turn; no client
\* receives a message twice.
C30_BroadcastBestEffort ==
  /\ \A b \in Messages :
        bc_pc[b] = "done" =>
           /\ (bc_failed[b] \cup bc_skipped[b]) \cap bc_end[b] = {}
           /\ \A c \in bc_end[b] \cap bc_start[b] : received[c][b] = 1
           /\ \A c \in bc_start[b] \ (bc_failed[b] \cup bc_skipped[b]) :
                 received[c][b] = 1
  /\ \A c \in Clients, b \in Messages : received[c][b] <= 1

\* a broadcast completed with a delivery while another client had
\* connected after its beginning and the other broadcast was under way
C30_Witness ==
  \E b \in Messages :
     /\ bc_pc[b] = "done"
     /\ \E c \in bc_start[b] : received[c][b] = 1
     /\ bc_end[b] \ bc_start[b] # {}
     /\ \E other \in Messages \ {b} : bc_pc[other] = "sending"

\* C31: the quantity of every opened position is min(qty_risk, qty_cap)
\* rounded to the step size, with stop = entry * 0.98 (BUY) or entry * 1.02
\* (SELL) standing for a stop_loss of 0; it is positive and its notional is
\* at least 5.
C31_QtyMinOfTwo ==
  outcome = "opened" =>
    LET stop_c == IF sig.stop_loss > 0 THEN 100 * sig.stop_loss
                  ELSE IF sig.side = "BUY" THEN 98 * sig.price
                  ELSE 102 * sig.price
        raw == calculate_position_size(openAvail, 100 * sig.price, stop_c,
                                       max_position_pct)
        qty == positions[sig.symbol].qty
    IN  /\ qty = normalize_quantity(raw)
        /\ qty > 0
        /\ check_min_notional(sig.price, qty)

\* money units rounded to the cent, halves up
Cents(x) == (x + Dollar \div 200) \div (Dollar \div 100)

\* the first signal of a behaviour is the BUY at 120 with its stop at 116
FirstBuyAt120 ==
  /\ nSignals = 1
  /\ sig.side = "BUY" /\ sig.price = 120 /\ sig.stop_loss = 116

\* C32 as stated: from an empty portfolio with balance 10000, max_pct 0.20
\* and fee 0.0004, the BUY at 120 with the stop at 116 opens one LONG of
\* qty 16.670 and leaves balance 7998.80.
C32_Qty16670 ==
  FirstBuyAt120 =>
    /\ outcome = "opened"
    /\ positions[sig.symbol] =
         [side |-> "LONG", entry_price |-> 120, qty |-> 16670]
    /\ Cents(balance) = 799880

\* C32: from an empty portfolio with balance 10000, max_pct 0.20 and fee
\* 0.0004, the BUY at 120 with the stop at 116 opens exactly one LONG, of
\* qty 16.667, at a cost of 2000.04 and a fee of 0.80 to the cent, and
\* leaves balance 7999.16 to the cent.
C32_WorkedOpen ==
  FirstBuyAt120 =>
    /\ outcome = "opened"
    /\ positions[sig.symbol] =
         [side |-> "LONG", entry_price |-> 120, qty |-> 16667]
    /\ \A y \in Symbols \ {sig.symbol} : positions[y] = NoPos
    /\ openCount[sig.symbol] = 1
    /\ 16667 * 120 * Milli = 200004 * (Dollar \div 100)
    /\ Cents(openDebit - 16667 * 120 * Milli) = 80
    /\ balance = openAvail - openDebit
    /\ openAvail = 10000 * Dollar
    /\ Cents(balance) = 799916

C32_Witness == FirstBuyAt120 /\ outcome = "opened"

\* C33: after a message with malformed JSON or a missing field the
\* connection is still open and being read, nothing has been put on the
\* output queue, and the ingestor has not terminated.
C33_BadMessageSkipped ==
  ing_msg \in {"malformed", "missing_field"} =>
    /\ ing_state = "reading"
    /\ dispatch_queue = <<>>

\* C34: every sample the learner has been trained on pairs the features
\* computed at candle t-1, which hold nothing of candle t, with the label
\* of close_t against close_(t-1).
C34_TrainsOnPreviousFeatures ==
  \A y \in Symbols : \A i \in DOMAIN lrn_samples[y] :
     lrn_samples[y][i].X.upto = lrn_samples[y][i].t - 1

\* C35: after the shutdown has cancelled all tasks, every task of the
\* pipeline eventually terminates, wherever it was: blocked on a full
\* queue, sleeping in a backoff, or in the middle of handling a signal.
C35_AllTerminate ==
  shutdown ~> (\A task \in TaskNames : task_at[task] = "done")

\* the shutdown found the dispatcher blocked on a full queue, the writer in
\* its reconnection backoff and the runner inside on_signal, and all ten
\* tasks have ended
C35_Witness ==
  /\ shutdown
  /\ cancelled_at["fanout-dispatcher"] = "put_db"
  /\ cancelled_at["questdb-writer"] = "sleep_reconnect"
  /\ cancelled_at["execution-runner"] = "execute"
  /\ \A task \in TaskNames : task_at[task] = "done"

\* C36: whenever no position is open, the balance is the initial balance
\* plus the gross PnL of the closed positions minus the entry fees and the
\* exit fees: opens and closes neither create nor destroy cash.
C36_CashConserved ==
  (\A y \in Symbols : positions[y] = NoPos) =>
    balance = initial_balance + gross_pnl - entry_fees - exit_fees

\* a position has been closed at another price than its entry, and the
\* engine is flat
C36_Witness ==
  /\ \A y \in Symbols : positions[y] = NoPos
  /\ closedNow
  /\ gross_pnl # 0
  /\ entry_fees > 0
  /\ exit_fees > 0

\* C37: handling POST /orders/preview or POST /orders/execute, accepted or
\* rejected, leaves the lockout flag as it was; only POST /panic sets it.
C37_OrdersLeaveLockout ==
  [][lastReq' \in {"preview", "execute"} => lockout' = lockout]_vars

\* the timestamp of the most recent closure of a symbol: that of the signal
\* whose _close_position has just popped the position, or the recorded one
RecentClosure(y) ==
  IF \E k \in Tasks : task_pc[k] = "closed" /\ task_sig[k].symbol = y
    THEN LET k == CHOOSE k \in Tasks :
                    task_pc[k] = "closed" /\ task_sig[k].symbol = y
         IN  task_sig[k].timestamp
    ELSE last_closure_time[y]

\* the step opens, closes a position of the symbol
OpensOn(y) == positions[y] = NoPos /\ positions'[y] # NoPos
ClosesOn(y) == positions[y] # NoPos /\ positions'[y] = NoPos

\* the debits of the balance are the cost and fee of a position the step
\* records, and no recorded position is replaced
DebitsAreRecorded ==
  /\ \A y \in Symbols :
       positions[y] # NoPos /\ positions'[y] # NoPos =>
         positions'[y] = positions[y]
  /\ (balance' # balance /\ \A y \in Symbols : ~ ClosesOn(y)) =>
       \E y \in Symbols :
          /\ OpensOn(y)
          /\ LET cost == positions'[y].qty * positions'[y].entry_price * Milli
             IN  balance - balance' = cost + (cost * fee_rate_e4) \div 10000

\* C38: under every interleaving of the execution runner and the manual
\* order listener, no position is opened on a symbol by a signal whose
\* timestamp is less than the cooldown after the symbol's most recent
\* closure, and every debit of the balance for an open is the cost and fee
\* of a position recorded in the position map.
C38_CooldownUnderInterleaving ==
  [][/\ \A y \in Symbols :
          OpensOn(y) => ~ (sig'.timestamp - RecentClosure(y) < cooldown_ms)
     /\ DebitsAreRecorded]_vars

\* the executor has completed at most once for each fingerprint
AtMostOneSuccess == \A fp \in Fingerprints : completed[fp] <= 1

\* beside a call that succeeded, every other call with its fingerprint that
\* returned has answered "duplicate" and has not invoked the executor
OthersAreDuplicates ==
  \A c1, c2 \in Routes :
    (/\ c1 # c2
     /\ route_fp[c1] = route_fp[c2]
     /\ route_result[c1] = "ok"
     /\ route_result[c2] \in {"ok", "duplicate"}) =>
      route_result[c2] = "duplicate" /\ attempts[c2] = 0

\* one call invokes the executor at most 3 times
AtMostThreeAttempts == \A call \in Routes : attempts[call] <= 3

\* C39: for concurrent route() calls with the same fingerprint the
\* executor completes at most once, every other call answers "duplicate"
\* without invoking the executor, and one call invokes the executor at
\* most 3 times.
C39_RouteOnce ==
  AtMostOneSuccess /\ OthersAreDuplicates /\ AtMostThreeAttempts

\* C40: the qty of a manual order does not influence the portfolio: the
\* balance and the positions after the order are those the same order
\* with any other qty leads to from the same state, and an order for a
\* symbol without a current price changes nothing.
C40_QtyHasNoInfluence ==
  [][manual'.n # manual.n =>
       /\ \A q \in OrderQtys :
            AfterLine(order_line([manual'.order EXCEPT !.qty = q]),
                      manual'.price, manual'.now)
              = [balance |-> balance', positions |-> positions']
       /\ manual'.price = 0 =>
            /\ balance' = balance /\ positions' = positions
            /\ realized_pnl' = realized_pnl
            /\ last_closure_time' = last_closure_time]_vars

\* a manual order has opened a position of 0.400 BTCUSDT, whatever its
\* qty, and an order without a current price has followed
C40_Witness ==
  /\ manual.n = 2
  /\ manual.price = 0
  /\ positions["BTCUSDT"].qty = 400
  /\ sig.id > NumIds
  /\ outcome = "opened"

====
